---- MODULE Spec2Model ----
(***************************************************************************)
(* A model of the SQLite file reader of joelburger/sqllite-clone:          *)
(* the varint codec (app/varint.js), the serial-type and record decoder,   *)
(* the B-tree walkers (app/database.js) and the SELECT executor            *)
(* (app/commands/select.js).                                               *)
(*                                                                         *)
(* Bytes are integers 0..255, buffers are sequences of bytes (index k of   *)
(* the JavaScript Buffer is element k + 1 of the sequence).                *)
(***************************************************************************)
EXTENDS Integers, Sequences, FiniteSets, TLC

VARIABLES
  pc,          \* "init" before the operation under study has run, "done" after
  op,          \* the operation that ran
  outcome,     \* "pending", "returned" or "threw"
  buffer,      \* the byte buffer handed to readVarInt / readValue
  offset,      \* readVarInt's offset
  cursor,      \* readValue's cursor
  serialType,  \* readValue's serialType
  u64,         \* the unsigned 64-bit value whose encoding the buffer was cut from
  file,        \* the database file: page number -> page
  tables,      \* the table rows of the schema
  indexes,     \* the index rows of the schema
  stored,      \* the rows (or index entries) the file was written from
  rowIdList,   \* the row-id list (index entries) handed to indexScan
  searchValue, \* the search value handed to readIndexData
  command,     \* the parsed SELECT handed to the select handler
  stdout,      \* the arguments of the console.log calls, as printed
  columnList,  \* the column list handed to parseRow
  pageNumber,  \* the page number handed to fetchPage
  pageBuf,     \* the buffer fetchPage returned
  fetched,     \* the pages a walker handed to fetchPage, in the order of the calls
  invocation,  \* main's process.argv and whether the database file can be opened
  fileState,   \* main's file handle: "none", "open" or "closed"
  closeCount,  \* how many times fileHandle.close() was called
  readAfterClose, \* whether a read was issued on a handle that is not open
  exitCode,    \* the exit code of the process, -1 while it runs
  stderr,      \* the arguments of the console.error calls
  result       \* what the operation returned

vars == <<pc, op, outcome, buffer, offset, cursor, serialType, u64,
          file, tables, indexes, stored, rowIdList, searchValue,
          command, stdout, columnList, pageNumber, pageBuf, fetched, invocation,
          fileState, closeCount, readAfterClose, exitCode, stderr, result>>

\* the state of main and of the operations studied on their own
processVars == <<columnList, pageNumber, pageBuf, fetched, invocation,
                 fileState, closeCount, readAfterClose, exitCode, stderr>>

\* the same but for the pages fetched
walkerVars == <<columnList, pageNumber, pageBuf, invocation,
                fileState, closeCount, readAfterClose, exitCode, stderr>>

----------------------------------------------------------------------------
(* Bounds of the model.                                                    *)

\* how many 1 bits a sampled unsigned 64-bit value has at most
MaxOneBits == 2
\* longest buffer handed to readValue
MaxBufLen == 9
\* largest serial type handed to readValue
MaxSerialType == 17
\* most rows of a table in the walker specifications
MaxRows == 4
\* most entries of an index in the index walker specification
MaxEntries == 5
\* most rows of the table in the select handler specification
MaxSelectRows == 3
\* most fields of a record handed to parseRow
MaxFields == 3
\* most rows of the schema in the schema loader specification
MaxSchemaRows == 3
MaxMainRows == 2
MaxColumns == 2

----------------------------------------------------------------------------
(* Unsigned 64-bit values.  TLC's integers are 32 bits wide, so a 64-bit   *)
(* value is the set of the positions of its 1 bits (bit 0 the lowest).     *)

BitPositions == {0, 6, 7, 13, 14, 20, 21, 27, 28, 30, 31, 32, 34, 35, 48, 49, 55, 56, 57, 63}

RECURSIVE BitSets(_)
BitSets(k) ==
  IF k = 0 THEN {{}}
  ELSE {s \cup {p} : s \in BitSets(k - 1), p \in BitPositions} \cup {{}}

U64Samples == BitSets(MaxOneBits)

SetMax(S) == CHOOSE m \in S : \A x \in S : x <= m

\* the value of the n bits of v from bit lo upwards
RECURSIVE Bits(_, _, _)
Bits(v, lo, n) ==
  IF n = 0 THEN 0
  ELSE (IF lo \in v THEN 1 ELSE 0) + 2 * Bits(v, lo + 1, n - 1)

\* v as an integer, for a v below 2^31
NatOf(v) == Bits(v, 0, 31)
FitsInt32(v) == \A p \in v : p <= 30

\* the 1 bits of a natural number below 2^31
BitsOfNat(n) == {p \in 0..30 : (n \div (2 ^ p)) % 2 = 1}

(* SQLite's varint encoding of v: big-endian groups of 7 bits, the high    *)
(* bit of a byte set when another byte follows; a value of more than 56    *)
(* bits takes 9 bytes, the ninth carrying the low 8 bits.                  *)
EncodeVarint(v) ==
  LET top == IF v = {} THEN 0 ELSE SetMax(v) + 1
      k   == IF top = 0 THEN 1 ELSE (top + 6) \div 7
  IN  IF top <= 56
        THEN [j \in 1..k |-> Bits(v, 7 * (k - j), 7) + (IF j < k THEN 128 ELSE 0)]
        ELSE [j \in 1..9 |-> IF j = 9 THEN Bits(v, 0, 8)
                                      ELSE 128 + Bits(v, 8 + 7 * (8 - j), 7)]

----------------------------------------------------------------------------
(* JavaScript's 32-bit integer operators.                                  *)

\* value << 7 on a 32-bit signed integer
Shl7(value) ==
  LET low == value % 33554432
  IN  IF low >= 16777216
        THEN (low - 16777216) * 128 - 1073741824 - 1073741824
        ELSE low * 128

InBuffer(buf, k) == k >= 0 /\ k < Len(buf)

\* buffer[k] & 0x7f ; buffer[k] is undefined past the end, and undefined & m = 0
And7f(buf, k) == IF InBuffer(buf, k) THEN buf[k + 1] % 128 ELSE 0

\* buffer[k] & 0x80
And80(buf, k) == IF InBuffer(buf, k) THEN (buf[k + 1] \div 128) * 128 ELSE 0

----------------------------------------------------------------------------
(* app/varint.js                                                           *)

RECURSIVE readVarIntLoop(_, _, _, _, _)
readVarIntLoop(buf, off, i, value, bytesRead) ==
  IF i >= 9 THEN [value |-> value, bytesRead |-> bytesRead]
  ELSE LET value2 == Shl7(value) + And7f(buf, off + i)
       IN  IF And80(buf, off + i) = 0
             THEN [value |-> value2, bytesRead |-> bytesRead + 1]
             ELSE readVarIntLoop(buf, off, i + 1, value2, bytesRead + 1)

readVarInt(buf, off) == readVarIntLoop(buf, off, 0, 0, 0)

----------------------------------------------------------------------------
(* Values a decoder returns.  A number is a sign and a magnitude, the      *)
(* magnitude in base 256, most significant digit first, without leading    *)
(* zeros; text and blob values carry their bytes.                          *)

Null == [t |-> "null", neg |-> FALSE, v |-> <<>>]
Num(neg, mag) == [t |-> "number", neg |-> neg /\ mag # <<>>, v |-> mag]
BigInt(mag) == [t |-> "bigint", neg |-> FALSE, v |-> mag]
Text(chars) == [t |-> "string", neg |-> FALSE, v |-> chars]
Blob(bytes) == [t |-> "buffer", neg |-> FALSE, v |-> bytes]

RECURSIVE Strip(_)
Strip(bytes) ==
  IF bytes = <<>> THEN <<>>
  ELSE IF bytes[1] = 0 THEN Strip(Tail(bytes)) ELSE bytes

\* a small natural number as a magnitude
RECURSIVE MagOfNat(_)
MagOfNat(n) == IF n = 0 THEN <<>> ELSE Append(MagOfNat(n \div 256), n % 256)

\* a 32-bit JavaScript number as a value
NumOfInt(n) ==
  IF n >= 0 THEN Num(FALSE, MagOfNat(n))
  ELSE IF n = -1073741824 - 1073741824 THEN Num(TRUE, <<128, 0, 0, 0>>)
  ELSE Num(TRUE, MagOfNat(0 - n))

----------------------------------------------------------------------------
(* The strings of the program and of the schemas of the model, as bytes.  *)

\* the i-th lower-case letter as a text of one character
Char(i) == <<96 + i>>

\* 'table'
TABLE_TYPE ==
  <<116, 97, 98, 108, 101>>

\* 'index'
INDEX_TYPE ==
  <<105, 110, 100, 101, 120>>

\* 'view'
VIEW_TYPE ==
  <<118, 105, 101, 119>>

\* 'trigger'
TRIGGER_TYPE ==
  <<116, 114, 105, 103, 103, 101, 114>>

\* 'sqlite_sequence'
SQLITE_SEQUENCE ==
  <<115, 113, 108, 105, 116, 101, 95, 115, 101, 113, 117, 101, 110, 99,
  101>>

\* 'CREATE TABLE t (id integer primary key, c text)'
CREATE_TABLE_T_IDENTITY ==
  <<67, 82, 69, 65, 84, 69, 32, 84, 65, 66, 76, 69, 32, 116, 32, 40,
  105, 100, 32, 105, 110, 116, 101, 103, 101, 114, 32, 112, 114, 105,
  109, 97, 114, 121, 32, 107, 101, 121, 44, 32, 99, 32, 116, 101, 120,
  116, 41>>

\* 'CREATE TABLE t (id integer, c text)'
CREATE_TABLE_T ==
  <<67, 82, 69, 65, 84, 69, 32, 84, 65, 66, 76, 69, 32, 116, 32, 40,
  105, 100, 32, 105, 110, 116, 101, 103, 101, 114, 44, 32, 99, 32, 116,
  101, 120, 116, 41>>

\* 'CREATE TABLE sqlite_sequence(name,seq)'
CREATE_TABLE_SEQUENCE ==
  <<67, 82, 69, 65, 84, 69, 32, 84, 65, 66, 76, 69, 32, 115, 113, 108,
  105, 116, 101, 95, 115, 101, 113, 117, 101, 110, 99, 101, 40, 110, 97,
  109, 101, 44, 115, 101, 113, 41>>

\* 'CREATE INDEX i on t (c)'
CREATE_INDEX_C ==
  <<67, 82, 69, 65, 84, 69, 32, 73, 78, 68, 69, 88, 32, 105, 32, 111,
  110, 32, 116, 32, 40, 99, 41>>

\* 'CREATE INDEX j on t (id, c)'
CREATE_INDEX_ID_C ==
  <<67, 82, 69, 65, 84, 69, 32, 73, 78, 68, 69, 88, 32, 106, 32, 111,
  110, 32, 116, 32, 40, 105, 100, 44, 32, 99, 41>>

\* 'CREATE VIEW v AS SELECT c FROM t'
CREATE_VIEW_V ==
  <<67, 82, 69, 65, 84, 69, 32, 86, 73, 69, 87, 32, 118, 32, 65, 83, 32,
  83, 69, 76, 69, 67, 84, 32, 99, 32, 70, 82, 79, 77, 32, 116>>

\* 'CREATE TRIGGER g AFTER INSERT ON t BEGIN SELECT 1; END'
CREATE_TRIGGER_G ==
  <<67, 82, 69, 65, 84, 69, 32, 84, 82, 73, 71, 71, 69, 82, 32, 103, 32,
  65, 70, 84, 69, 82, 32, 73, 78, 83, 69, 82, 84, 32, 79, 78, 32, 116,
  32, 66, 69, 71, 73, 78, 32, 83, 69, 76, 69, 67, 84, 32, 49, 59, 32,
  69, 78, 68>>

----------------------------------------------------------------------------
(* Node's Buffer readers.  Each fixed-width reader throws a RangeError     *)
(* when the bytes it needs are not inside the buffer; subarray clamps.     *)

Min(a, b) == IF a <= b THEN a ELSE b

subarray(buf, start, end) ==
  LET s == Min(start, Len(buf))
      e == Min(end, Len(buf))
  IN  IF e <= s THEN <<>> ELSE SubSeq(buf, s + 1, e)

HasBytes(buf, cur, n) == cur >= 0 /\ cur + n <= Len(buf)

\* Buffer.toString('utf8'): an ASCII byte is its character, any other byte
\* that starts no valid sequence becomes U+FFFD
toStringUtf8(bytes) == [i \in 1..Len(bytes) |-> IF bytes[i] < 128 THEN bytes[i] ELSE 65533]

readInt8(buf, cur) ==
  IF buf[cur + 1] >= 128 THEN Num(TRUE, <<256 - buf[cur + 1]>>)
  ELSE Num(FALSE, Strip(<<buf[cur + 1]>>))

readUIntBE(buf, cur, n) == Num(FALSE, Strip(SubSeq(buf, cur + 1, cur + n)))

readBigUInt64BE(buf, cur) == BigInt(Strip(SubSeq(buf, cur + 1, cur + 8)))

----------------------------------------------------------------------------
(* app/database.js: readValue                                              *)

Return(value, newCursor) == [threw |-> "", value |-> value, newCursor |-> newCursor]
Throw(message) == [threw |-> message, value |-> Null, newCursor |-> 0]

\* a reader that forgets the integer constants 8 and 9
NullSerialTypes_NoConstants == {0, 12, 13}

NullSerialTypes == {0, 8, 9, 12, 13}

ReadFixed(buf, cur, n, value) ==
  IF HasBytes(buf, cur, n) THEN Return(value, cur + n) ELSE Throw("RangeError")

readValue(buf, cur, st) ==
  IF st \in NullSerialTypes THEN Return(Null, cur)
  ELSE IF st > 12 THEN
    LET dataTypeSize == (st - (IF st % 2 = 0 THEN 12 ELSE 13)) \div 2
        value == subarray(buf, cur, cur + dataTypeSize)
        newCursor == cur + dataTypeSize
    IN  IF st % 2 = 0 THEN Return(Blob(value), newCursor)
        ELSE Return(Text(toStringUtf8(value)), newCursor)
  ELSE IF st = 1 THEN ReadFixed(buf, cur, 1, readInt8(buf, cur))
  ELSE IF st = 2 THEN ReadFixed(buf, cur, 2, readUIntBE(buf, cur, 2))
  ELSE IF st = 3 THEN ReadFixed(buf, cur, 3, readUIntBE(buf, cur, 3))
  ELSE IF st = 4 THEN ReadFixed(buf, cur, 4, readUIntBE(buf, cur, 4))
  ELSE IF st = 5 THEN ReadFixed(buf, cur, 6, readUIntBE(buf, cur, 6))
  ELSE IF st \in {6, 7} THEN ReadFixed(buf, cur, 8, readBigUInt64BE(buf, cur))
  ELSE Throw("Unknown serial type")

----------------------------------------------------------------------------
(* JavaScript's comparisons on decoded values.                             *)

\* a === b : numbers and BigInts never equal each other, strings compare by
\* content, two Buffer objects are never the same object
StrictEquals(a, b) == a.t # "buffer" /\ a = b

\* magnitudes: -1, 0, 1 as x is below, equal to or above y
RECURSIVE CompareSeq(_, _)
CompareSeq(x, y) ==
  IF x = <<>> /\ y = <<>> THEN 0
  ELSE IF x = <<>> THEN -1
  ELSE IF y = <<>> THEN 1
  ELSE IF x[1] < y[1] THEN -1
  ELSE IF x[1] > y[1] THEN 1
  ELSE CompareSeq(Tail(x), Tail(y))

CompareMag(x, y) ==
  IF Len(x) < Len(y) THEN -1 ELSE IF Len(x) > Len(y) THEN 1 ELSE CompareSeq(x, y)

CompareNum(a, b) ==
  IF a.neg /\ ~b.neg THEN -1
  ELSE IF ~a.neg /\ b.neg THEN 1
  ELSE IF a.neg THEN CompareMag(b.v, a.v)
  ELSE CompareMag(a.v, b.v)

IsDigits(chars) == \A i \in 1..Len(chars) : chars[i] \in 48..57

\* the digits of a decimal numeral as a magnitude (numerals below 2^31)
RECURSIVE NatOfDigits(_)
NatOfDigits(chars) ==
  IF chars = <<>> THEN 0
  ELSE 10 * NatOfDigits(SubSeq(chars, 1, Len(chars) - 1)) + (chars[Len(chars)] - 48)

\* ToPrimitive: a Buffer becomes its string
ToPrimitive(a) == IF a.t = "buffer" THEN Text(toStringUtf8(a.v)) ELSE a

\* ToNumeric of a primitive; nan is TRUE for a string that is no numeral
\* (the numerals of the model are strings of decimal digits)
ToNumeric(a) ==
  IF a.t = "null" THEN [nan |-> FALSE, n |-> Num(FALSE, <<>>)]
  ELSE IF a.t = "string" THEN
    IF IsDigits(a.v) THEN [nan |-> FALSE, n |-> Num(FALSE, MagOfNat(NatOfDigits(a.v)))]
    ELSE [nan |-> TRUE, n |-> Num(FALSE, <<>>)]
  ELSE [nan |-> FALSE, n |-> a]

\* the abstract relational comparison: "lt", "eq", "gt" or "undefined"
Relate(a0, b0) ==
  LET a == ToPrimitive(a0)
      b == ToPrimitive(b0)
  IN  IF a.t = "string" /\ b.t = "string" THEN
        LET c == CompareSeq(a.v, b.v)
        IN  IF c < 0 THEN "lt" ELSE IF c > 0 THEN "gt" ELSE "eq"
      ELSE
        LET x == ToNumeric(a)
            y == ToNumeric(b)
        IN  IF x.nan \/ y.nan THEN "undefined"
            ELSE LET c == CompareNum(x.n, y.n)
                 IN  IF c < 0 THEN "lt" ELSE IF c > 0 THEN "gt" ELSE "eq"

GreaterThan(a, b) == Relate(a, b) = "gt"
GreaterOrEqual(a, b) == Relate(a, b) \in {"gt", "eq"}
LessOrEqual(a, b) == Relate(a, b) \in {"lt", "eq"}

----------------------------------------------------------------------------
(* The database file.  A page is its type byte, its cells (each the bytes  *)
(* its cell pointer leads to) and the right-most pointer of its header.    *)

TABLE_LEAF == 13
TABLE_INTERIOR == 5
INDEX_LEAF == 10
INDEX_INTERIOR == 2

INDEX_COLUMNS == <<"key", "rowId">>

\* a read past the end of the file leaves the zero-filled buffer
ZeroPage == [pageType |-> 0, cells |-> <<>>, rightMostPointer |-> 0]

fetchPage(fileHandle, page) ==
  IF page \in DOMAIN fileHandle THEN fileHandle[page] ELSE ZeroPage

\* a version that takes every other page type for an interior page
getPageHeaderSize_NoThrow(pageType) ==
  IF pageType = INDEX_LEAF \/ pageType = TABLE_LEAF THEN 8 ELSE 12

getPageHeaderSize(pageType) ==
  IF pageType = INDEX_LEAF \/ pageType = TABLE_LEAF THEN 8
  ELSE IF pageType = INDEX_INTERIOR \/ pageType = TABLE_INTERIOR THEN 12
  ELSE 0 \* throws "invalid page type"

\* buffer.readInt8 of the page-type byte
Int8(byte) == IF byte >= 128 THEN byte - 256 ELSE byte

\* the rightMostPointer of a leaf page's header: undefined
Undefined == -1

\* threw is "" when the header was returned
parsePageHeader(buf) ==
  LET pageType == Int8(buf.pageType)
  IN  [threw            |-> IF getPageHeaderSize(pageType) = 0 THEN "invalid page type" ELSE "",
       pageType         |-> pageType,
       numberOfCells    |-> Len(buf.cells),
       rightMostPointer |-> IF pageType = INDEX_INTERIOR \/ pageType = TABLE_INTERIOR
                              THEN buf.rightMostPointer
                              ELSE Undefined,
       pageHeaderSize   |-> getPageHeaderSize(pageType)]

readUInt32BE(buf, cur) ==
  ((buf[cur + 1] * 256 + buf[cur + 2]) * 256 + buf[cur + 3]) * 256 + buf[cur + 4]

----------------------------------------------------------------------------
(* app/database.js: records and cells                                      *)

\* the first loop of parseRow: one serial-type varint per column
RECURSIVE readSerialTypes(_, _, _)
readSerialTypes(buf, cur, n) ==
  IF n = 0 THEN [types |-> <<>>, cursor |-> cur]
  ELSE LET r    == readVarInt(buf, cur)
           rest == readSerialTypes(buf, cur + r.bytesRead, n - 1)
       IN  [types |-> <<r.value>> \o rest.types, cursor |-> rest.cursor]

\* the second loop of parseRow: one value per column, in order
RECURSIVE readValues(_, _, _)
readValues(buf, cur, types) ==
  IF types = <<>> THEN [threw |-> "", values |-> <<>>]
  ELSE LET r == readValue(buf, cur, types[1])
       IN  IF r.threw # "" THEN [threw |-> r.threw, values |-> <<>>]
           ELSE LET rest == readValues(buf, r.newCursor, Tail(types))
                IN  [threw |-> rest.threw, values |-> <<r.value>> \o rest.values]

\* the Map a list of columns and their values make (a later set of the same
\* column wins)
RowOf(columns, values) ==
  [c \in {columns[i] : i \in 1..Len(columns)} |->
     values[SetMax({i \in 1..Len(columns) : columns[i] = c})]]

parseRow(buf, columns) ==
  LET header == readVarInt(buf, 0)
      st     == readSerialTypes(buf, header.bytesRead, Len(columns))
      vs     == readValues(buf, st.cursor, st.types)
  IN  IF vs.threw # "" THEN [threw |-> vs.threw, row |-> <<>>]
      ELSE [threw |-> "", row |-> RowOf(columns, vs.values)]

readCellPayload(pageType, cell) ==
  LET size     == readVarInt(cell, 0)
      hasRowId == pageType = TABLE_LEAF \/ pageType = TABLE_INTERIOR
      id       == readVarInt(cell, size.bytesRead)
      start    == size.bytesRead + (IF hasRowId THEN id.bytesRead ELSE 0)
  IN  [payload |-> subarray(cell, start, start + size.value),
       rowId   |-> id.value,
       hasRowId |-> hasRowId]

----------------------------------------------------------------------------
(* app/database.js: the four page parsers                                  *)

NoIndexData == [defined |-> FALSE, entries |-> <<>>]
IndexData(entries) == [defined |-> TRUE, entries |-> entries]

\* indexData.find((entry) => entry.get('rowId') === rowId)
Found(indexData, rowId) ==
  \E i \in 1..Len(indexData.entries) :
     StrictEquals(indexData.entries[i]["rowId"], NumOfInt(rowId))

RECURSIVE parseTableLeafCells(_, _, _, _)
parseTableLeafCells(cells, columns, identityColumn, indexData) ==
  IF cells = <<>> THEN [threw |-> "", rows |-> <<>>]
  ELSE LET cell == readCellPayload(TABLE_LEAF, cells[1])
           r    == parseRow(cell.payload, columns)
       IN  IF r.threw # "" THEN [threw |-> r.threw, rows |-> <<>>]
           ELSE
             LET row  == IF identityColumn # ""
                           THEN [c \in DOMAIN r.row \cup {identityColumn} |->
                                   IF c = identityColumn THEN NumOfInt(cell.rowId)
                                   ELSE r.row[c]]
                           ELSE r.row
                 keep == ~indexData.defined \/ Found(indexData, cell.rowId)
                 rest == parseTableLeafCells(Tail(cells), columns, identityColumn, indexData)
             IN  [threw |-> rest.threw,
                  rows  |-> (IF keep THEN <<row>> ELSE <<>>) \o rest.rows]

\* a page parser without the row.set(identityColumn, rowId)
parseTableLeafPage_NoIdentity(buf, columns, identityColumn, indexData) ==
  parseTableLeafCells(buf.cells, columns, "", indexData)

parseTableLeafPage(buf, columns, identityColumn, indexData) ==
  parseTableLeafCells(buf.cells, columns, identityColumn, indexData)

\* a loop that stops one cell early
parseTableInteriorPage_StopsEarly(buf) ==
  [i \in 1..(Len(buf.cells) - 1) |->
     [page  |-> readUInt32BE(buf.cells[i], 0),
      rowId |-> readVarInt(buf.cells[i], 4).value]]

parseTableInteriorPage(buf) ==
  [i \in 1..Len(buf.cells) |->
     [page  |-> readUInt32BE(buf.cells[i], 0),
      rowId |-> readVarInt(buf.cells[i], 4).value]]

\* the payload of an index cell, which follows the child page of an
\* interior cell
IndexCellRow(cell, at) ==
  LET size == readVarInt(cell, at)
      from == at + size.bytesRead
  IN  parseRow(subarray(cell, from, from + size.value), INDEX_COLUMNS)

RECURSIVE parseIndexLeafCells(_, _)
parseIndexLeafCells(cells, filterValue) ==
  IF cells = <<>> THEN [threw |-> "", rows |-> <<>>]
  ELSE LET r == IndexCellRow(cells[1], 0)
       IN  IF r.threw # "" THEN [threw |-> r.threw, rows |-> <<>>]
           ELSE IF GreaterThan(r.row["key"], filterValue) THEN [threw |-> "", rows |-> <<>>]
           ELSE LET rest == parseIndexLeafCells(Tail(cells), filterValue)
                IN  [threw |-> rest.threw,
                     rows  |-> (IF StrictEquals(r.row["key"], filterValue)
                                  THEN <<r.row>> ELSE <<>>) \o rest.rows]

parseIndexLeafPage(buf, filterValue) == parseIndexLeafCells(buf.cells, filterValue)

RECURSIVE parseIndexInteriorCells(_)
parseIndexInteriorCells(cells) ==
  IF cells = <<>> THEN [threw |-> "", keys |-> <<>>]
  ELSE LET r == IndexCellRow(cells[1], 4)
       IN  IF r.threw # "" THEN [threw |-> r.threw, keys |-> <<>>]
           ELSE LET rest == parseIndexInteriorCells(Tail(cells))
                IN  [threw |-> rest.threw,
                     keys  |-> <<[page  |-> readUInt32BE(cells[1], 0),
                                  value |-> r.row["key"]]>> \o rest.keys]

parseIndexInteriorPage(buf) == parseIndexInteriorCells(buf.cells)

----------------------------------------------------------------------------
(* app/database.js: the walkers.  Each returns threw = "" and its rows, or *)
(* the error that was thrown.                                              *)

Rows(rows) == [threw |-> "", rows |-> rows]
Threw(message) == [threw |-> message, rows |-> <<>>]

RECURSIVE tableScan(_, _, _, _)
RECURSIVE tableScanEach(_, _, _, _)

\* for (const childPointer of childPointers) rows.push(...(await tableScan(...)))
tableScanEach(fileHandle, childPointers, columns, identityColumn) ==
  IF childPointers = <<>> THEN Rows(<<>>)
  ELSE LET first == tableScan(fileHandle, childPointers[1].page, columns, identityColumn)
       IN  IF first.threw # "" THEN first
           ELSE LET rest == tableScanEach(fileHandle, Tail(childPointers), columns, identityColumn)
                IN  IF rest.threw # "" THEN rest ELSE Rows(first.rows \o rest.rows)

tableScan(fileHandle, page, columns, identityColumn) ==
  LET buf    == fetchPage(fileHandle, page)
      header == parsePageHeader(buf)
  IN  IF header.threw # "" THEN Threw(header.threw)
      ELSE IF header.pageType = TABLE_LEAF
        THEN parseTableLeafPage(buf, columns, identityColumn, NoIndexData)
      ELSE IF header.pageType = TABLE_INTERIOR THEN
        LET childPointers == parseTableInteriorPage(buf)
            inner == tableScanEach(fileHandle, childPointers, columns, identityColumn)
        IN  IF inner.threw # "" THEN inner
            ELSE IF header.rightMostPointer # 0 THEN
              LET last == tableScan(fileHandle, header.rightMostPointer, columns, identityColumn)
              IN  IF last.threw # "" THEN last ELSE Rows(inner.rows \o last.rows)
            ELSE inner
      ELSE Threw("Unknown page type")

\* the child pages of an interior page in the order the walker takes them:
\* the child pointers, then the right-most pointer when it is not 0
\* a walk that does not take the right-most pointer
ChildPages_CellsOnly(childPointers, rightMostPointer) ==
  [i \in 1..Len(childPointers) |-> childPointers[i].page]

ChildPages(childPointers, rightMostPointer) ==
  [i \in 1..Len(childPointers) |-> childPointers[i].page]
    \o (IF rightMostPointer # 0 THEN <<rightMostPointer>> ELSE <<>>)

\* the fetchPage calls of tableScan: the page itself, then those of the scan
\* of each child in turn, up to the first scan that throws
RECURSIVE tableScanFetched(_, _, _, _)
RECURSIVE tableScanFetchedEach(_, _, _, _)

tableScanFetchedEach(fileHandle, pages, columns, identityColumn) ==
  IF pages = <<>> THEN <<>>
  ELSE tableScanFetched(fileHandle, pages[1], columns, identityColumn)
         \o (IF tableScan(fileHandle, pages[1], columns, identityColumn).threw # ""
               THEN <<>>
               ELSE tableScanFetchedEach(fileHandle, Tail(pages), columns, identityColumn))

tableScanFetched(fileHandle, page, columns, identityColumn) ==
  LET buf    == fetchPage(fileHandle, page)
      header == parsePageHeader(buf)
  IN  IF header.threw = "" /\ header.pageType = TABLE_INTERIOR
        THEN <<page>> \o tableScanFetchedEach(fileHandle,
                            ChildPages(parseTableInteriorPage(buf), header.rightMostPointer),
                            columns, identityColumn)
        ELSE <<page>>

\* the positions of fromChildPointer and toChildPointer for one row-id
\* (0: undefined); the inner loop of filterChildPointers
RECURSIVE FromTo(_, _, _, _)
FromTo(childPointers, rowId, i, from) ==
  IF i > Len(childPointers) THEN [from |-> from, to |-> 0]
  ELSE LET from2 == IF GreaterOrEqual(rowId, NumOfInt(childPointers[i].rowId))
                      THEN i ELSE from
       IN  IF LessOrEqual(rowId, NumOfInt(childPointers[i].rowId))
             THEN [from |-> from2, to |-> i]
             ELSE FromTo(childPointers, rowId, i + 1, from2)

\* Set.add: insertion order, no element twice
\* an array in place of the Set: a child pointer may be kept twice
SetAdd_Array(set, i) == IF i = 0 THEN set ELSE Append(set, i)

SetAdd(set, i) ==
  IF i = 0 \/ \E k \in 1..Len(set) : set[k] = i THEN set ELSE Append(set, i)

\* the outer loop of filterChildPointers: the positions of the kept child
\* pointers, in the order the Set received them
RECURSIVE filterPositions(_, _, _)
filterPositions(childPointers, entries, set) ==
  IF entries = <<>> THEN set
  ELSE LET ft == FromTo(childPointers, entries[1]["rowId"], 1, 0)
       IN  filterPositions(childPointers, Tail(entries),
                           SetAdd(SetAdd(set, ft.from), ft.to))

filterChildPointers(childPointers, indexData) ==
  LET kept == filterPositions(childPointers, indexData.entries, <<>>)
  IN  [k \in 1..Len(kept) |-> childPointers[kept[k]]]

RECURSIVE indexScan(_, _, _, _, _)
RECURSIVE indexScanEach(_, _, _, _, _)
RECURSIVE indexScanFetched(_, _, _, _, _)
RECURSIVE indexScanFetchedEach(_, _, _, _, _)

indexScanEach(fileHandle, childPointers, columns, identityColumn, indexData) ==
  IF childPointers = <<>> THEN Rows(<<>>)
  ELSE LET first == indexScan(fileHandle, childPointers[1].page, columns, identityColumn, indexData)
       IN  IF first.threw # "" THEN first
           ELSE LET rest == indexScanEach(fileHandle, Tail(childPointers), columns,
                                          identityColumn, indexData)
                IN  IF rest.threw # "" THEN rest ELSE Rows(first.rows \o rest.rows)

indexScan(fileHandle, page, columns, identityColumn, indexData) ==
  LET buf    == fetchPage(fileHandle, page)
      header == parsePageHeader(buf)
  IN  IF header.threw # "" THEN Threw(header.threw)
      ELSE IF header.pageType = TABLE_LEAF
        THEN parseTableLeafPage(buf, columns, identityColumn, indexData)
      ELSE IF header.pageType = TABLE_INTERIOR THEN
        LET childPointers == parseTableInteriorPage(buf)
            filteredChildPointers == filterChildPointers(childPointers, indexData)
            inner == indexScanEach(fileHandle, filteredChildPointers, columns,
                                   identityColumn, indexData)
        IN  IF inner.threw # "" THEN inner
            ELSE IF header.rightMostPointer # 0 THEN
              LET last == indexScan(fileHandle, header.rightMostPointer, columns,
                                    identityColumn, indexData)
              IN  IF last.threw # "" THEN last ELSE Rows(inner.rows \o last.rows)
            ELSE inner
      ELSE Threw("Unknown page type")

\* the fetchPage calls of indexScan: the page itself, then those of the scan
\* of each kept child in turn, up to the first scan that throws
indexScanFetchedEach(fileHandle, pages, columns, identityColumn, indexData) ==
  IF pages = <<>> THEN <<>>
  ELSE indexScanFetched(fileHandle, pages[1], columns, identityColumn, indexData)
         \o (IF indexScan(fileHandle, pages[1], columns, identityColumn,
                          indexData).threw # ""
               THEN <<>>
               ELSE indexScanFetchedEach(fileHandle, Tail(pages), columns,
                                         identityColumn, indexData))

indexScanFetched(fileHandle, page, columns, identityColumn, indexData) ==
  LET buf    == fetchPage(fileHandle, page)
      header == parsePageHeader(buf)
  IN  IF header.threw = "" /\ header.pageType = TABLE_INTERIOR
        THEN <<page>> \o indexScanFetchedEach(fileHandle,
                            ChildPages(filterChildPointers(parseTableInteriorPage(buf),
                                                           indexData),
                                       header.rightMostPointer),
                            columns, identityColumn, indexData)
        ELSE <<page>>

RECURSIVE readIndexData(_, _, _)
RECURSIVE readIndexKeys(_, _, _)

\* for (const key of keys) { if (key.value >= filterValue) { ... break ... } }
readIndexKeys(fileHandle, keys, filterValue) ==
  IF keys = <<>> THEN Rows(<<>>)
  ELSE IF GreaterOrEqual(keys[1].value, filterValue) THEN
    LET subresult == readIndexData(fileHandle, keys[1].page, filterValue)
    IN  IF subresult.threw # "" THEN subresult
        ELSE IF Len(subresult.rows) = 0 THEN Rows(<<>>)
        ELSE LET rest == readIndexKeys(fileHandle, Tail(keys), filterValue)
             IN  IF rest.threw # "" THEN rest ELSE Rows(subresult.rows \o rest.rows)
  ELSE readIndexKeys(fileHandle, Tail(keys), filterValue)

\* the children the loop over the keys of an interior page recurses into,
\* in the order of the calls
RECURSIVE descended(_, _, _)
descended(fileHandle, keys, filterValue) ==
  IF keys = <<>> THEN <<>>
  ELSE IF GreaterOrEqual(keys[1].value, filterValue) THEN
    LET subresult == readIndexData(fileHandle, keys[1].page, filterValue)
    IN  IF subresult.threw # "" \/ Len(subresult.rows) = 0 THEN <<keys[1].page>>
        ELSE <<keys[1].page>> \o descended(fileHandle, Tail(keys), filterValue)
  ELSE descended(fileHandle, Tail(keys), filterValue)

readIndexData(fileHandle, page, filterValue) ==
  LET buf    == fetchPage(fileHandle, page)
      header == parsePageHeader(buf)
  IN  IF header.threw # "" THEN Threw(header.threw)
      ELSE IF header.pageType = INDEX_INTERIOR THEN
        LET keys == parseIndexInteriorPage(buf)
        IN  IF keys.threw # "" THEN Threw(keys.threw)
            ELSE LET inner == readIndexKeys(fileHandle, keys.keys, filterValue)
                 IN  IF inner.threw # "" THEN inner
                     ELSE LET last == readIndexData(fileHandle, header.rightMostPointer,
                                                    filterValue)
                          IN  IF last.threw # "" THEN last
                              ELSE Rows(inner.rows \o last.rows)
      ELSE IF header.pageType = INDEX_LEAF THEN parseIndexLeafPage(buf, filterValue)
      ELSE Rows(<<>>)

----------------------------------------------------------------------------
(* app/database.js: readDatabaseSchemas.  It returns threw = "" with the   *)
(* table rows and the index rows, or the error that was thrown.            *)

SCHEMA_COLUMNS == <<"schemaType", "schemaName", "name", "rootPage", "schemaBody">>

Schemas(tableRows, indexRows) ==
  [threw |-> "", tables |-> tableRows, indexes |-> indexRows]

NoSchemas(message) == [threw |-> message, tables |-> <<>>, indexes |-> <<>>]

\* a classification that takes every row that is not an index for a table
schemaKind_Lenient(schemaType) ==
  IF StrictEquals(schemaType, Text(INDEX_TYPE)) THEN "index" ELSE "table"

\* schemaType === 'table', schemaType === 'index', or neither
schemaKind(schemaType) ==
  IF StrictEquals(schemaType, Text(TABLE_TYPE)) THEN "table"
  ELSE IF StrictEquals(schemaType, Text(INDEX_TYPE)) THEN "index"
  ELSE "invalid"

\* the loop over the cells of page 1
RECURSIVE readSchemaCells(_, _, _, _)
readSchemaCells(pageType, cells, tableRows, indexRows) ==
  IF cells = <<>> THEN Schemas(tableRows, indexRows)
  ELSE LET cell == readCellPayload(pageType, cells[1])
           r    == parseRow(cell.payload, SCHEMA_COLUMNS)
       IN  IF r.threw # "" THEN NoSchemas(r.threw)
           ELSE IF schemaKind(r.row["schemaType"]) = "table"
             THEN readSchemaCells(pageType, Tail(cells), Append(tableRows, r.row), indexRows)
           ELSE IF schemaKind(r.row["schemaType"]) = "index"
             THEN readSchemaCells(pageType, Tail(cells), tableRows, Append(indexRows, r.row))
           ELSE NoSchemas("Invalid schema type")

readDatabaseSchemas(fileHandle) ==
  LET buf    == fetchPage(fileHandle, 1)
      header == parsePageHeader(buf)
  IN  IF header.threw # "" THEN NoSchemas(header.threw)
      ELSE readSchemaCells(header.pageType, buf.cells, <<>>, <<>>)

----------------------------------------------------------------------------
(* app/commands/select.js: the SELECT executor, from the parsed command    *)
(* on.  A schema row is its parsed form: a table its name, root page,      *)
(* columns and identity column, an index its table, root page and columns. *)

NoIndex == [name |-> "", tableName |-> "", rootPage |-> 0, columns |-> <<>>]

Contains(seq, x) == \E i \in 1..Len(seq) : seq[i] = x

\* indexes.find(...): the first index on the queried table that has the
\* filter column among its columns, or none
RECURSIVE searchIndex(_, _, _)
searchIndex(queryTableName, whereClause, indexList) ==
  IF indexList = <<>> THEN NoIndex
  ELSE IF /\ indexList[1].tableName = queryTableName
          /\ Contains(indexList[1].columns, whereClause[1][1])
    THEN indexList[1]
  ELSE searchIndex(queryTableName, whereClause, Tail(indexList))

NoTable == [name |-> "", rootPage |-> 0, columns |-> <<>>, identityColumn |-> ""]

\* tables.find((table) => table.get('name') === queryTableName)
RECURSIVE findTable(_, _)
findTable(tableList, queryTableName) ==
  IF tableList = <<>> THEN NoTable
  ELSE IF tableList[1].name = queryTableName THEN tableList[1]
  ELSE findTable(Tail(tableList), queryTableName)

\* what Map.prototype.get returns for a key the Map does not hold
UndefinedValue == [t |-> "undefined", neg |-> FALSE, v |-> <<>>]

\* row.get(column)
Get(row, column) == IF column \in DOMAIN row THEN row[column] ELSE UndefinedValue

filterRows(rows, whereClause) ==
  IF Len(whereClause) = 0 THEN rows
  ELSE LET filterColumn == whereClause[1][1]
           filterValue  == whereClause[1][2]
           Keep(row) == StrictEquals(Get(row, filterColumn), filterValue)
       IN  SelectSeq(rows, Keep)

RECURSIVE NatOfMag(_)
NatOfMag(mag) ==
  IF mag = <<>> THEN 0 ELSE 256 * NatOfMag(SubSeq(mag, 1, Len(mag) - 1)) + mag[Len(mag)]

RECURSIVE Decimal(_)
Decimal(n) == IF n < 10 THEN <<48 + n>> ELSE Append(Decimal(n \div 10), 48 + (n % 10))

\* what Array.prototype.join makes of an element: null and undefined are
\* the empty string
JoinString(value) ==
  IF value.t \in {"null", "undefined"} THEN <<>>
  ELSE IF value.t \in {"string", "buffer"} THEN value.v
  ELSE (IF value.neg THEN <<45>> ELSE <<>>) \o Decimal(NatOfMag(value.v))

RECURSIVE Join(_, _)
Join(strings, separator) ==
  IF strings = <<>> THEN <<>>
  ELSE IF Len(strings) = 1 THEN strings[1]
  ELSE strings[1] \o separator \o Join(Tail(strings), separator)

projectTableRows(rows, queryColumns) ==
  [i \in 1..Len(rows) |->
     Join([k \in 1..Len(queryColumns) |-> JoinString(Get(rows[i], queryColumns[k]))], <<124>>)]

Printed(rows, queryColumns) ==
  IF queryColumns[1] = "count(*)" THEN <<Decimal(Len(rows))>>
  ELSE <<Join(projectTableRows(rows, queryColumns), <<10>>)>>

\* what handle leaves behind: threw, the rows it selected, what it printed
\* and the indexData it worked with
Output(scanned, queryColumns, indexData) ==
  [threw  |-> scanned.threw,
   rows   |-> scanned.rows,
   stdout |-> IF scanned.threw = "" THEN Printed(scanned.rows, queryColumns) ELSE <<>>,
   indexData |-> indexData]

\* filterRows(await tableScan(...), whereClause)
Filtered(scanned, whereClause) ==
  IF scanned.threw # "" THEN scanned ELSE Rows(filterRows(scanned.rows, whereClause))

\* indexData = await readIndexPage(fileHandle, indexPage, pageSize, filterValue)
Assigned(read) ==
  [threw |-> read.threw, indexData |-> IndexData(read.rows)]

\* let indexData; if (whereClause.length > 0) { ... if (index) { ... } }
lookUp(cmd, fileHandle, index) ==
  IF index = NoIndex THEN [threw |-> "", indexData |-> NoIndexData]
  ELSE Assigned(readIndexData(fileHandle, index.rootPage, cmd.whereClause[1][2]))

\* a handler that takes an empty indexData for none and scans the table
scan_EmptyIsNone(cmd, fileHandle, table, looked) ==
  IF looked.threw # "" THEN Threw(looked.threw)
  ELSE IF looked.indexData.defined /\ Len(looked.indexData.entries) > 0
    THEN indexScan(fileHandle, table.rootPage, table.columns, table.identityColumn,
                   looked.indexData)
  ELSE Filtered(tableScan(fileHandle, table.rootPage, table.columns, table.identityColumn),
                cmd.whereClause)

\* if (indexData) rows = indexScan(...) else rows = filterRows(tableScan(...))
scan(cmd, fileHandle, table, looked) ==
  IF looked.threw # "" THEN Threw(looked.threw)
  ELSE IF looked.indexData.defined
    THEN indexScan(fileHandle, table.rootPage, table.columns, table.identityColumn,
                   looked.indexData)
  ELSE Filtered(tableScan(fileHandle, table.rootPage, table.columns, table.identityColumn),
                cmd.whereClause)

selectWith(cmd, fileHandle, table, looked) ==
  Output(scan(cmd, fileHandle, table, looked), cmd.queryColumns, looked.indexData)

selectFrom(cmd, fileHandle, table, indexList) ==
  IF table = NoTable THEN Output(Threw("Table not found"), cmd.queryColumns, NoIndexData)
  ELSE selectWith(cmd, fileHandle, table,
                  lookUp(cmd, fileHandle,
                         IF Len(cmd.whereClause) > 0
                           THEN searchIndex(cmd.queryTableName, cmd.whereClause, indexList)
                           ELSE NoIndex))

handle(cmd, fileHandle, tableList, indexList) ==
  selectFrom(cmd, fileHandle, findTable(tableList, cmd.queryTableName), indexList)

----------------------------------------------------------------------------
(* app/sqlparser.js.  A string is the sequence of its character codes; the *)
(* regular expressions are matched as the engine matches them: leftmost,   *)
(* every quantifier greedy, giving characters back only to let the rest    *)
(* of the pattern match.                                                   *)

\* what a named group that took no part in the match holds, and what
\* result?.groups[...] is when the pattern did not match
UndefinedString == <<-1>>

\* \s
IsSpace(ch) == ch \in {9, 10, 11, 12, 13, 32}

\* \w
IsWord(ch) == ch \in (48..57) \cup (65..90) \cup (97..122) \cup {95}

\* [\w()*,\s]
InColumnsClass(ch) == IsWord(ch) \/ IsSpace(ch) \/ ch \in {40, 41, 42, 44}

\* [\w\s=']
InWhereClass(ch) == IsWord(ch) \/ IsSpace(ch) \/ ch \in {61, 39}

\* [\w"]
InNameClass(ch) == IsWord(ch) \/ ch = 34

LowerCase(ch) == IF ch \in 65..90 THEN ch + 32 ELSE ch

toLowerCase(str) == [i \in 1..Len(str) |-> LowerCase(str[i])]

SetMin(S) == CHOOSE m \in S : \A x \in S : m <= x

\* the flag i: word, in lower case, is at position i of str
MatchesAt(str, i, word) ==
  /\ i >= 1 /\ i + Len(word) - 1 <= Len(str)
  /\ \A k \in 1..Len(word) : LowerCase(str[i + k - 1]) = word[k]

\* the position after the longest run of characters of a class from i on
RunEnd(str, i, InClass(_)) ==
  LET stops == {j \in i..Len(str) : ~InClass(str[j])}
  IN  IF stops = {} THEN Len(str) + 1 ELSE SetMin(stops)

SpaceAt(str, i) == i >= 1 /\ i <= Len(str) /\ IsSpace(str[i])

\* String.prototype.trim
trim(str) ==
  LET kept == {i \in 1..Len(str) : ~IsSpace(str[i])}
  IN  IF kept = {} THEN <<>> ELSE SubSeq(str, SetMin(kept), SetMax(kept))

\* String.prototype.split with a separator of one character
RECURSIVE splitBy(_, _)
splitBy(str, separator) ==
  LET at == {i \in 1..Len(str) : str[i] = separator}
  IN  IF at = {} THEN <<str>>
      ELSE <<SubSeq(str, 1, SetMin(at) - 1)>>
           \o splitBy(SubSeq(str, SetMin(at) + 1, Len(str)), separator)

\* replaceAll("'", '')
replaceAllQuotes(str) == SelectSeq(str, LAMBDA ch : ch # 39)

\* String.prototype.includes
includes(str, part) ==
  \E i \in 1..(Len(str) - Len(part) + 1) : SubSeq(str, i, i + Len(part) - 1) = part

\* 'select', 'from', 'where', 'create', 'table', 'integer primary key'
SELECT_WORD == <<115, 101, 108, 101, 99, 116>>
FROM_WORD == <<102, 114, 111, 109>>
WHERE_WORD == <<119, 104, 101, 114, 101>>
CREATE_WORD == <<99, 114, 101, 97, 116, 101>>
TABLE_WORD == <<116, 97, 98, 108, 101>>
INTEGER_PRIMARY_KEY == <<105, 110, 116, 101, 103, 101, 114, 32, 112, 114, 105, 109, 97, 114,
                         121, 32, 107, 101, 121>>

parseWhereClause(whereClause) ==
  IF whereClause = UndefinedString \/ whereClause = <<>> THEN <<>>
  ELSE LET parts == splitBy(whereClause, 61)
       IN  <<[i \in 1..Len(parts) |-> replaceAllQuotes(trim(parts[i]))]>>

\* \s+from\s+(?<tableName>\w+) matches at position e
FromAt(str, e) ==
  /\ SpaceAt(str, e)
  /\ MatchesAt(str, RunEnd(str, e, IsSpace), FROM_WORD)
  /\ SpaceAt(str, RunEnd(str, e, IsSpace) + 4)
  /\ RunEnd(str, RunEnd(str, e, IsSpace) + 4, IsSpace) <= Len(str)
  /\ IsWord(str[RunEnd(str, RunEnd(str, e, IsSpace) + 4, IsSpace)])

\* the ends of (?<columns>[\w()*,\s]+) when it starts at w
ColumnsEnds(str, w) ==
  {e \in (w + 1)..RunEnd(str, w, InColumnsClass) : FromAt(str, e)}

\* the ends of select\s+ when select starts at s: the starts of the columns
ColumnsStarts(str, s) ==
  IF MatchesAt(str, s, SELECT_WORD) /\ SpaceAt(str, s + 6)
    THEN {w \in (s + 7)..RunEnd(str, s + 6, IsSpace) : ColumnsEnds(str, w) # {}}
    ELSE {}

\* (\s+where\s+(?<whereClause>[\w\s=']+))* after the table name, which ends
\* before p
whereGroup(str, p) ==
  IF /\ SpaceAt(str, p)
     /\ MatchesAt(str, RunEnd(str, p, IsSpace), WHERE_WORD)
     /\ SpaceAt(str, RunEnd(str, p, IsSpace) + 5)
    THEN LET spaces == RunEnd(str, p, IsSpace) + 5
             q      == RunEnd(str, spaces, IsSpace)
         IN  IF q <= Len(str) /\ InWhereClass(str[q])
               THEN SubSeq(str, q, RunEnd(str, q, InWhereClass) - 1)
             ELSE IF q - 1 > spaces THEN <<str[q - 1]>>
             ELSE UndefinedString
    ELSE UndefinedString

\* the groups of the match whose columns are str[w..e-1]
selectGroups(str, w, e) ==
  LET t    == RunEnd(str, RunEnd(str, e, IsSpace) + 4, IsSpace)
      tEnd == RunEnd(str, t, IsWord)
  IN  [queryTableName |-> SubSeq(str, t, tEnd - 1),
       queryColumns   |-> LET items == splitBy(SubSeq(str, w, e - 1), 44)
                          IN  [i \in 1..Len(items) |-> trim(items[i])],
       whereClause    |-> parseWhereClause(whereGroup(str, tEnd))]

parseSelectCommand(str) ==
  LET starts == {s \in 1..Len(str) : ColumnsStarts(str, s) # {}}
  IN  IF starts = {}
        THEN [queryTableName |-> UndefinedString, queryColumns |-> UndefinedString,
              whereClause |-> <<>>]
      ELSE LET w == SetMax(ColumnsStarts(str, SetMin(starts)))
           IN  selectGroups(str, w, SetMax(ColumnsEnds(str, w)))

\* values?.trim().split(' ')[0]
extractFirstEntry(values) ==
  IF values = UndefinedString THEN UndefinedString ELSE splitBy(trim(values), 32)[1]

\* the group columns of
\* /^CREATE\s+TABLE\s+[\w"]+\s*\(\s*(?<columns>[\s\S_]+)\s*\)$/i, or '' when
\* the pattern does not match
matchedColumns(str) ==
  IF MatchesAt(str, 1, CREATE_WORD) /\ SpaceAt(str, 7)
     /\ MatchesAt(str, RunEnd(str, 7, IsSpace), TABLE_WORD)
     /\ SpaceAt(str, RunEnd(str, 7, IsSpace) + 5)
    THEN LET name == RunEnd(str, RunEnd(str, 7, IsSpace) + 5, IsSpace)
             open == RunEnd(str, RunEnd(str, name, InNameClass), IsSpace)
             from == RunEnd(str, open + 1, IsSpace)
         IN  IF /\ RunEnd(str, name, InNameClass) > name
                /\ open < Len(str) /\ str[open] = 40 /\ str[Len(str)] = 41
               THEN (IF from <= Len(str) - 1 THEN SubSeq(str, from, Len(str) - 1)
                     ELSE IF open + 1 <= Len(str) - 1 THEN <<str[Len(str) - 1]>>
                     ELSE <<>>)
               ELSE <<>>
    ELSE <<>>

\* a filter that knows the lower-case spelling only
identityItem_LowerCaseOnly(items) ==
  LET found == SelectSeq(items, LAMBDA item : includes(item, INTEGER_PRIMARY_KEY))
  IN  IF found = <<>> THEN UndefinedString ELSE found[1]

\* const [identityColumn] = columns.filter(...)
identityItem(items) ==
  LET found == SelectSeq(items, LAMBDA item : includes(toLowerCase(item), INTEGER_PRIMARY_KEY))
  IN  IF found = <<>> THEN UndefinedString ELSE found[1]

parseColumnsOf(matched) ==
  IF matched = <<>>
    THEN [threw |-> "Failed to parse columns", columns |-> <<>>,
          identityColumn |-> UndefinedString]
  ELSE [threw |-> "",
        columns |-> [i \in 1..Len(splitBy(matched, 44)) |->
                       extractFirstEntry(splitBy(matched, 44)[i])],
        identityColumn |-> extractFirstEntry(identityItem(splitBy(matched, 44)))]

parseColumns(tableSchema) == parseColumnsOf(matchedColumns(tableSchema))

----------------------------------------------------------------------------
(* The front end: the commands and main.  tables and indexes are the rows  *)
(* readDatabaseSchemas returned; the SELECT command is in its parsed form, *)
(* the name of its table as the bytes of the schema's name column.         *)

\* the name the rows of the select handler have for a column
ColumnName(chars) ==
  IF chars = <<105, 100>> THEN "id"
  ELSE IF chars = <<99>> THEN "c"
  ELSE IF chars = <<99, 111, 117, 110, 116, 40, 42, 41>> THEN "count(*)"
  ELSE IF chars = UndefinedString THEN ""
  ELSE "other"

\* sqlparser.js parseIndex, on the CREATE INDEX statements of the schemas
\* written below
parseIndex(indexSchema) ==
  IF indexSchema = Text(CREATE_INDEX_C)
    THEN [threw |-> "", tableName |-> Char(20), columns |-> <<"c">>]
  ELSE IF indexSchema = Text(CREATE_INDEX_ID_C)
    THEN [threw |-> "", tableName |-> Char(20), columns |-> <<"id", "c">>]
  ELSE [threw |-> "Invalid index schema", tableName |-> <<>>, columns |-> <<>>]

\* table.get('name'), table.get('rootPage'), parseColumns(table.get('schemaBody'))
tableOf(row) ==
  [name |-> row["name"].v, rootPage |-> NatOfMag(row["rootPage"].v),
   columns |-> [i \in 1..Len(parseColumns(row["schemaBody"].v).columns) |->
                  ColumnName(parseColumns(row["schemaBody"].v).columns[i])],
   identityColumn |-> ColumnName(parseColumns(row["schemaBody"].v).identityColumn)]

\* index.get('rootPage'), parseIndex(index.get('schemaBody'))
indexOf(row) ==
  [name |-> row["name"].v, tableName |-> parseIndex(row["schemaBody"]).tableName,
   rootPage |-> NatOfMag(row["rootPage"].v),
   columns |-> parseIndex(row["schemaBody"]).columns]

\* commands/select.js handle, on the rows of the schema
handleSelect(cmd, fileHandle, tableRows, indexRows) ==
  handle(cmd, fileHandle,
         [i \in 1..Len(tableRows) |-> tableOf(tableRows[i])],
         [i \in 1..Len(indexRows) |-> indexOf(indexRows[i])])

\* Array.prototype.sort of strings: ascending by code units
RECURSIVE SortInsert(_, _)
SortInsert(sorted, string) ==
  IF sorted = <<>> THEN <<string>>
  ELSE IF CompareSeq(string, sorted[1]) < 0 THEN <<string>> \o sorted
  ELSE <<sorted[1]>> \o SortInsert(Tail(sorted), string)

RECURSIVE Sort(_)
Sort(strings) ==
  IF strings = <<>> THEN <<>> ELSE SortInsert(Sort(Tail(strings)), strings[1])

\* commands/tables.js handle: what it prints
handleTables(tableRows) ==
  LET names == [i \in 1..Len(tableRows) |-> JoinString(tableRows[i]["name"])]
      NotSequence(tableName) == tableName # SQLITE_SEQUENCE
  IN  <<Join(Sort(SelectSeq(names, NotSequence)), <<32>>)>>

\* the .dbinfo command: the page size and the number of tables
handleDbInfo(tableRows, pageSize) == <<Decimal(pageSize), Decimal(Len(tableRows))>>

\* logger.js: logDebug and logTrace write with console.log, to stdout.
\* The lines the logger writes in a row are held as the one line LOG.
LOG == <<0>>

logDebug(env) == IF env.DEBUG_MODE \/ env.TRACE_MODE THEN <<LOG>> ELSE <<>>

logTrace(env) == IF env.TRACE_MODE THEN <<LOG>> ELSE <<>>

\* stdout after the logger has written lines
Logged(written, lines) ==
  IF lines = <<>> \/ (written # <<>> /\ written[Len(written)] = LOG) THEN written
  ELSE Append(written, LOG)

\* what the logger writes during handle: logDebug after readIndexPage has
\* returned, logTrace after the header of the first page, the root of the
\* index or else of the table, has been parsed
selectLogsOf(env, table, index, looked) ==
  IF table = NoTable THEN <<>>
  ELSE (IF index # NoIndex /\ looked.threw = "" THEN logDebug(env) ELSE <<>>)
       \o (IF parsePageHeader(fetchPage(looked.fileHandle,
                                        IF index # NoIndex THEN index.rootPage
                                                           ELSE table.rootPage)).threw = ""
             THEN logTrace(env) ELSE <<>>)

selectLogsWith(env, cmd, fileHandle, table, index) ==
  selectLogsOf(env, table, index,
               [threw |-> lookUp(cmd, fileHandle, index).threw, fileHandle |-> fileHandle])

selectLogs(env, cmd, fileHandle, tableRows, indexRows) ==
  selectLogsWith(env, cmd, fileHandle,
                 findTable([i \in 1..Len(tableRows) |-> tableOf(tableRows[i])],
                           cmd.queryTableName),
                 IF Len(cmd.whereClause) > 0
                   THEN searchIndex(cmd.queryTableName, cmd.whereClause,
                                    [i \in 1..Len(indexRows) |-> indexOf(indexRows[i])])
                   ELSE NoIndex)

\* a finally block that leaves the handle as it is
closeFileHandle_Leak(handleState) == handleState

\* if (fileHandle) await fileHandle.close()
closeFileHandle(handleState) == IF handleState = "open" THEN "closed" ELSE handleState

----------------------------------------------------------------------------
(* Writing a database file, by the SQLite file format: the inputs of the   *)
(* walkers are files a writer of that format produces.                     *)

RECURSIVE Flatten(_)
Flatten(seqs) == IF seqs = <<>> THEN <<>> ELSE seqs[1] \o Flatten(Tail(seqs))

VarintOfNat(n) == EncodeVarint(BitsOfNat(n))

UInt32BE(n) == <<(n \div 16777216) % 256, (n \div 65536) % 256, (n \div 256) % 256, n % 256>>

\* a stored field: its serial type and its body bytes.  A writer of file
\* format 4 stores the integers 0 and 1 as serial types 8 and 9.
NullField == [st |-> 0, body |-> <<>>]
TextField(chars) == [st |-> 13 + 2 * Len(chars), body |-> chars]
IntField(n, format) ==
  IF format = 4 /\ n \in {0, 1} THEN [st |-> 8 + n, body |-> <<>>]
  ELSE [st |-> 1, body |-> <<n>>]

FieldOf(value, format) ==
  IF value.t = "null" THEN NullField
  ELSE IF value.t = "string" THEN TextField(value.v)
  ELSE IntField(IF value.v = <<>> THEN 0 ELSE value.v[1], format)

EncodeRecord(fields) ==
  LET types == Flatten([i \in 1..Len(fields) |-> VarintOfNat(fields[i].st)])
  IN  VarintOfNat(Len(types) + 1) \o types
        \o Flatten([i \in 1..Len(fields) |-> fields[i].body])

TableLeafCell(rowId, record) == VarintOfNat(Len(record)) \o VarintOfNat(rowId) \o record
TableInteriorCell(page, rowId) == UInt32BE(page) \o VarintOfNat(rowId)
IndexLeafCell(record) == VarintOfNat(Len(record)) \o record
IndexInteriorCell(page, record) == UInt32BE(page) \o VarintOfNat(Len(record)) \o record

\* the sequences of positive integers that sum to n
RECURSIVE Compositions(_)
Compositions(n) ==
  IF n = 0 THEN {<<>>}
  ELSE UNION {{<<k>> \o c : c \in Compositions(n - k)} : k \in 1..n}

RECURSIVE SumTo(_, _)
SumTo(sizes, i) == IF i = 0 THEN 0 ELSE sizes[i] + SumTo(sizes, i - 1)

\* part i of seq cut into parts of the given sizes
Part(seq, sizes, i) == SubSeq(seq, SumTo(sizes, i - 1) + 1, SumTo(sizes, i))

(* The shapes of a table B-tree of n rows: one leaf; an interior root over *)
(* two or more leaves; an interior root over two or more interior pages of *)
(* two or more leaves each.  No leaf under an interior page is empty.      *)
TableShapes(n) ==
  {[depth |-> 1, sizes |-> <<n>>, groups |-> <<>>]}
  \cup {[depth |-> 2, sizes |-> c, groups |-> <<>>] : c \in {x \in Compositions(n) : Len(x) >= 2}}
  \cup UNION {{[depth |-> 3, sizes |-> c, groups |-> g] :
                 g \in {y \in Compositions(Len(c)) :
                          Len(y) >= 2 /\ \A j \in 1..Len(y) : y[j] >= 2}} :
              c \in Compositions(n)}

\* a stored row: its row-id and the value of each column
RowRecord(row, format) ==
  EncodeRecord(<<FieldOf(row.id, format), FieldOf(row.c, format)>>)

TableLeafPage(rows, format) ==
  [pageType |-> TABLE_LEAF,
   cells |-> [i \in 1..Len(rows) |-> TableLeafCell(rows[i].rowId, RowRecord(rows[i], format))],
   rightMostPointer |-> 0]

\* an interior page over the parts first..last of rows: a cell for each part
\* but the last, keyed by the largest row-id of the part (plus slack, which a
\* delete leaves behind), and the last part as the right-most child.
\* pageOf[i] is the page of part i.
TableInteriorPage(rows, sizes, first, last, pageOf, slack) ==
  [pageType |-> TABLE_INTERIOR,
   cells |-> [k \in 1..(last - first) |->
                LET part == Part(rows, sizes, first + k - 1)
                IN  TableInteriorCell(pageOf[first + k - 1], part[Len(part)].rowId + slack)],
   rightMostPointer |-> pageOf[last]]

\* the pages of a table whose root is page base, the root first
TablePages(rows, shape, base, slack, format) ==
  LET sizes == shape.sizes
      m     == Len(sizes)
      leaves == [i \in 1..m |-> TableLeafPage(Part(rows, sizes, i), format)]
  IN  IF shape.depth = 1 THEN <<TableLeafPage(rows, format)>>
      ELSE IF shape.depth = 2 THEN
        <<TableInteriorPage(rows, sizes, 1, m, [i \in 1..m |-> base + i], slack)>> \o leaves
      ELSE
        LET g == shape.groups
            k == Len(g)
            \* the rows under interior page j, as one part each
            groupSizes == [j \in 1..k |->
                             SumTo(sizes, SumTo(g, j)) - SumTo(sizes, SumTo(g, j - 1))]
        IN  <<TableInteriorPage(rows, groupSizes, 1, k, [j \in 1..k |-> base + j], slack)>>
            \o [j \in 1..k |->
                  TableInteriorPage(rows, sizes, SumTo(g, j - 1) + 1, SumTo(g, j),
                                    [i \in 1..m |-> base + k + i], slack)]
            \o leaves

\* page 1 holds the schema; the walkers start at the root pages it names
SchemaPage == [pageType |-> TABLE_LEAF, cells |-> <<>>, rightMostPointer |-> 0]

----------------------------------------------------------------------------
(* The table walkers on their own: a table of n rows with row-ids 1, 3, 5, *)
(* ... in every shape, and a row-id list.                                  *)

\* the rows of the walker specifications: with an identity column the id
\* column is stored as NULL, as an integer or as text, row by row; without
\* one it holds an integer of its own
WalkerRows(n, identityColumn) ==
  [i \in 1..n |->
     [rowId |-> 2 * i - 1,
      id    |-> IF identityColumn = "" THEN NumOfInt(10 + i)
                ELSE IF i % 3 = 1 THEN Null
                ELSE IF i % 3 = 2 THEN NumOfInt(20 + i)
                ELSE Text(Char(3)),
      c     |-> Text(Char(1 + (i % 2)))]]

Entry(key, rowId) == [c \in {"key", "rowId"} |-> IF c = "key" THEN key ELSE rowId]

\* row-id lists: every list of at most two of the row-ids 0..2n, and the
\* list of all row-ids of the table, ascending and descending
RowIdLists(n) ==
  LET ids == 0..(2 * n)
  IN  {<<>>} \cup {<<a>> : a \in ids} \cup {<<a, b>> : a \in ids, b \in ids}
      \cup {[i \in 1..n |-> 2 * i - 1], [i \in 1..n |-> 2 * (n - i) + 1]}

NoBytes ==
  buffer = <<>> /\ offset = 0 /\ cursor = 0 /\ serialType = 0 /\ u64 = {}

NoCommand == [queryColumns |-> <<>>, queryTableName |-> "", whereClause |-> <<>>]

NoSelect == command = NoCommand /\ stdout = <<>>

NoRow == columnList = <<>>

NoPage == pageNumber = 0 /\ pageBuf = ZeroPage /\ fetched = <<>>

NoInvocation ==
  [argc |-> 0, canOpen |-> FALSE, pageSize |-> 0, command |-> "",
   DEBUG_MODE |-> FALSE, TRACE_MODE |-> FALSE]

NoMain ==
  /\ invocation = NoInvocation /\ fileState = "none" /\ closeCount = 0
  /\ readAfterClose = FALSE /\ exitCode = -1 /\ stderr = <<>>

NoProcess == NoRow /\ NoPage /\ NoMain

NoFile ==
  /\ file = <<>> /\ tables = <<>> /\ indexes = <<>> /\ stored = <<>>
  /\ rowIdList = NoIndexData /\ searchValue = Null

InitTable ==
  /\ pc = "init" /\ op = "none" /\ outcome = "pending"
  /\ NoSelect
  /\ NoBytes
  /\ NoProcess
  /\ \E n \in 0..MaxRows, identityColumn \in {"id", ""}, slack \in {0, 1} :
       \E shape \in TableShapes(n), ids \in RowIdLists(n) :
         /\ stored = WalkerRows(n, identityColumn)
         /\ file = <<SchemaPage>> \o TablePages(stored, shape, 2, slack, 4)
         /\ tables = <<[name |-> "t", rootPage |-> 2, columns |-> <<"id", "c">>,
                        identityColumn |-> identityColumn]>>
         /\ rowIdList = IndexData([i \in 1..Len(ids) |-> Entry(Null, NumOfInt(ids[i]))])
  /\ indexes = <<>> /\ searchValue = Null
  /\ result = Rows(<<>>)

Finish(name, r) ==
  /\ pc' = "done" /\ op' = name
  /\ result' = [threw |-> r.threw, rows |-> r.rows]
  /\ outcome' = IF r.threw = "" THEN "returned" ELSE "threw"

TableScanStep ==
  /\ pc = "init"
  /\ Finish("tableScan",
            tableScan(file, tables[1].rootPage, tables[1].columns, tables[1].identityColumn))
  /\ fetched' = tableScanFetched(file, tables[1].rootPage, tables[1].columns,
                                 tables[1].identityColumn)
  /\ UNCHANGED <<buffer, offset, cursor, serialType, u64,
                 file, tables, indexes, stored, rowIdList, searchValue,
                 command, stdout, walkerVars>>

IndexScanStep ==
  /\ pc = "init"
  /\ Finish("indexScan",
            indexScan(file, tables[1].rootPage, tables[1].columns,
                      tables[1].identityColumn, rowIdList))
  /\ fetched' = indexScanFetched(file, tables[1].rootPage, tables[1].columns,
                                 tables[1].identityColumn, rowIdList)
  /\ UNCHANGED <<buffer, offset, cursor, serialType, u64,
                 file, tables, indexes, stored, rowIdList, searchValue,
                 command, stdout, walkerVars>>

NextTable == TableScanStep \/ IndexScanStep

SpecTable == InitTable /\ [][NextTable]_vars

----------------------------------------------------------------------------
(* Writing an index B-tree.  An index entry is a record (key, rowId); the  *)
(* entries are in ascending (key, rowId) order.  An interior cell holds an *)
(* entry of its own, which is in no leaf: the entries before it are under  *)
(* its child, and the entries after the last cell under the right-most     *)
(* child.                                                                  *)

\* the record of an entry: its key, the columns after the first of an index
\* on several columns, and the row-id last
EntryRecord(e, format) ==
  EncodeRecord(<<FieldOf(e.key, format)>>
               \o (IF "more" \in DOMAIN e
                     THEN [i \in 1..Len(e.more) |-> FieldOf(e.more[i], format)]
                     ELSE <<>>)
               \o <<IntField(e.rowId, format)>>)

IndexLeafPage(entries, format) ==
  [pageType |-> INDEX_LEAF,
   cells |-> [i \in 1..Len(entries) |-> IndexLeafCell(EntryRecord(entries[i], format))],
   rightMostPointer |-> 0]

\* the positions of the entries an interior root may hold: neither the
\* first nor the last entry nor two neighbours, so that no leaf is empty
SeparatorSets(n) ==
  {S \in SUBSET (2..(n - 1)) : \A p \in S : p + 1 \notin S}

RECURSIVE SortedSeq(_)
SortedSeq(S) ==
  IF S = {} THEN <<>>
  ELSE LET m == CHOOSE x \in S : \A y \in S : x <= y
       IN  <<m>> \o SortedSeq(S \ {m})

\* the pages of an index whose root is page base, the root first
IndexPages(entries, S, base, format) ==
  IF S = {} THEN <<IndexLeafPage(entries, format)>>
  ELSE
    LET seps == SortedSeq(S)
        k    == Len(seps)
        from(j) == IF j = 1 THEN 1 ELSE seps[j - 1] + 1
        to(j)   == IF j = k + 1 THEN Len(entries) ELSE seps[j] - 1
    IN  <<[pageType |-> INDEX_INTERIOR,
           cells |-> [j \in 1..k |->
                        IndexInteriorCell(base + j, EntryRecord(entries[seps[j]], format))],
           rightMostPointer |-> base + k + 1]>>
        \o [j \in 1..(k + 1) |-> IndexLeafPage(SubSeq(entries, from(j), to(j)), format)]

----------------------------------------------------------------------------
(* The index walker on its own: an index of n entries with keys NULL, "a", *)
(* "b", "c" in ascending order, the entry at position i holding row-id i.  *)

KeyOrder == <<Null, Text(Char(1)), Text(Char(2)), Text(Char(3))>>

\* the search values: a key of the index, or the absent "ab"
SearchValues == {Text(Char(1)), Text(Char(2)), Text(Char(3)), Text(Char(1) \o Char(2))}

RECURSIVE Nondecreasing(_, _)
Nondecreasing(n, k) ==
  IF n = 0 THEN {<<>>}
  ELSE {Append(s, x) : s \in Nondecreasing(n - 1, k), x \in 1..k} \cap
       {s \in [1..n -> 1..k] : \A i \in 1..(n - 1) : s[i] <= s[i + 1]}

InitIndex ==
  /\ pc = "init" /\ op = "none" /\ outcome = "pending"
  /\ NoSelect
  /\ NoBytes
  /\ NoProcess
  /\ \E n \in 0..MaxEntries, format \in {1, 4} :
       \E ks \in Nondecreasing(n, Len(KeyOrder)), S \in SeparatorSets(n) :
         /\ stored = [i \in 1..n |-> [key |-> KeyOrder[ks[i]], rowId |-> i]]
         /\ file = <<SchemaPage>> \o IndexPages(stored, S, 2, format)
  /\ indexes = <<[name |-> "i", tableName |-> "t", rootPage |-> 2, columns |-> <<"c">>]>>
  /\ searchValue \in SearchValues
  /\ tables = <<>> /\ rowIdList = NoIndexData
  /\ result = Rows(<<>>)

ReadIndexDataStep ==
  /\ pc = "init"
  /\ Finish("readIndexData", readIndexData(file, indexes[1].rootPage, searchValue))
  /\ UNCHANGED <<buffer, offset, cursor, serialType, u64,
                 file, tables, indexes, stored, rowIdList, searchValue,
                 command, stdout, processVars>>

NextIndex == ReadIndexDataStep

SpecIndex == InitIndex /\ [][NextIndex]_vars

----------------------------------------------------------------------------
(* The SELECT executor: a table t(id, c) of n rows with row-ids 1..n, with *)
(* or without an index on c, and a parsed SELECT.                          *)

SelectRows(cs, identityColumn) ==
  [i \in 1..Len(cs) |->
     [rowId |-> i,
      id    |-> IF identityColumn # "" THEN Null ELSE NumOfInt(10 + i),
      c     |-> KeyOrder[cs[i]]]]

\* the index entries of rows on column c, in ascending (key, rowId) order
\* the rows of rows whose c is key, as index entries
RECURSIVE EntriesWith(_, _)
EntriesWith(rows, key) ==
  IF rows = <<>> THEN <<>>
  ELSE (IF rows[1].c = key THEN <<[key |-> key, rowId |-> rows[1].rowId]>> ELSE <<>>)
       \o EntriesWith(Tail(rows), key)

RECURSIVE EntriesOf(_, _)
EntriesOf(rows, k) ==
  IF k > Len(KeyOrder) THEN <<>>
  ELSE EntriesWith(rows, KeyOrder[k]) \o EntriesOf(rows, k + 1)

\* the entries of an index on (id, c): the id column holds the row-id when
\* it is the identity column, so the entries are in row order
EntriesOnIdAndC(rows, identityColumn) ==
  [i \in 1..Len(rows) |->
     [key   |-> IF identityColumn # "" THEN NumOfInt(rows[i].rowId) ELSE rows[i].id,
      more  |-> <<rows[i].c>>,
      rowId |-> rows[i].rowId]]

\* x is not a column of the table
QueryColumns == {<<"count(*)">>, <<"c">>, <<"id", "c">>, <<"x">>}

WhereClauses ==
  {<<>>} \cup {<<<<"c", v>>>> : v \in {Text(Char(1)), Text(Char(2)), Text(Char(3))}}
         \cup {<<<<"id", Text(<<49>>)>>>>, <<<<"x", Text(Char(1))>>>>}

\* SELECTs from the table t, and one from a table the schema does not hold
Commands ==
  {[queryColumns |-> queryColumns, queryTableName |-> "t", whereClause |-> whereClause] :
     queryColumns \in QueryColumns, whereClause \in WhereClauses}
  \cup {[queryColumns |-> <<"c">>, queryTableName |-> "u", whereClause |-> <<>>]}

\* the indexes of the schema: none, an index on c, or an index on (id, c)
InitSelect ==
  /\ pc = "init" /\ op = "none" /\ outcome = "pending"
  /\ NoBytes
  /\ NoProcess
  /\ \E n \in 0..MaxSelectRows, identityColumn \in {"id", ""}, format \in {1, 4},
        indexed \in {"", "c", "id,c"} :
       \E cs \in [1..n -> 1..3], shape \in TableShapes(n), S \in SeparatorSets(n) :
         LET rows       == SelectRows(cs, identityColumn)
             tablePages == TablePages(rows, shape, 2, 0, format)
             indexRoot  == 2 + Len(tablePages)
         IN  /\ indexed = "c" \/ S = {}
             /\ stored = rows
             /\ file = <<SchemaPage>> \o tablePages
                         \o (IF indexed = "c"
                               THEN IndexPages(EntriesOf(rows, 1), S, indexRoot, format)
                             ELSE IF indexed = "id,c"
                               THEN IndexPages(EntriesOnIdAndC(rows, identityColumn), {},
                                               indexRoot, format)
                             ELSE <<>>)
             /\ tables = <<[name |-> "t", rootPage |-> 2, columns |-> <<"id", "c">>,
                            identityColumn |-> identityColumn]>>
             /\ indexes = IF indexed = "c"
                            THEN <<[name |-> "i", tableName |-> "t",
                                    rootPage |-> indexRoot, columns |-> <<"c">>]>>
                          ELSE IF indexed = "id,c"
                            THEN <<[name |-> "j", tableName |-> "t",
                                    rootPage |-> indexRoot, columns |-> <<"id", "c">>]>>
                          ELSE <<>>
  /\ command \in Commands
  /\ stdout = <<>>
  /\ rowIdList = NoIndexData /\ searchValue = Null
  /\ result = Rows(<<>>)

Printing(name, r) ==
  Finish(name, r) /\ stdout' = r.stdout /\ rowIdList' = r.indexData

SelectStep ==
  /\ pc = "init"
  /\ Printing("select", handle(command, file, tables, indexes))
  /\ UNCHANGED <<buffer, offset, cursor, serialType, u64,
                 file, tables, indexes, stored, searchValue, command, processVars>>

NextSelect == SelectStep

SpecSelect == InitSelect /\ [][NextSelect]_vars

----------------------------------------------------------------------------
(* The varint codec on its own: the buffer holds a prefix, then the        *)
(* encoding of u64 or a truncation of it, then (after a whole encoding)    *)
(* a tail.                                                                 *)

Prefixes == {<<>>, <<129>>}
Tails == {<<>>, <<255>>}

InitVarInt ==
  /\ pc = "init" /\ op = "none" /\ outcome = "pending"
  /\ NoSelect
  /\ u64 \in U64Samples
  /\ \E pre \in Prefixes, tail \in Tails, cut \in 0..9 :
       LET enc == EncodeVarint(u64)
       IN  /\ cut <= Len(enc)
           /\ buffer = pre \o SubSeq(enc, 1, cut) \o (IF cut = Len(enc) THEN tail ELSE <<>>)
  /\ offset \in 0..(Len(buffer) + 1)
  /\ cursor = 0 /\ serialType = 0
  /\ NoFile
  /\ NoProcess
  /\ result = [value |-> 0, bytesRead |-> 0]

ReadVarIntStep ==
  /\ pc = "init"
  /\ pc' = "done" /\ op' = "readVarInt"
  /\ result' = readVarInt(buffer, offset)
  /\ outcome' = "returned"
  /\ UNCHANGED <<buffer, offset, cursor, serialType, u64,
                 file, tables, indexes, stored, rowIdList, searchValue,
                 command, stdout, processVars>>

NextVarInt == ReadVarIntStep

SpecVarInt == InitVarInt /\ [][NextVarInt]_vars

----------------------------------------------------------------------------
(* The serial-type decoder on its own.                                     *)

ByteSamples == {0, 1, 127, 128, 255}

SampleBuffers ==
  {[i \in 1..n |-> IF i = 1 THEN first ELSE fill] :
     n \in 0..MaxBufLen, first \in ByteSamples, fill \in {0, 255}}

InitValue ==
  /\ pc = "init" /\ op = "none" /\ outcome = "pending"
  /\ NoSelect
  /\ buffer \in SampleBuffers
  /\ cursor \in 0..1
  /\ serialType \in 0..MaxSerialType
  /\ offset = 0 /\ u64 = {}
  /\ NoFile
  /\ NoProcess
  /\ result = Return(Null, 0)

ReadValueStep ==
  /\ pc = "init"
  /\ pc' = "done" /\ op' = "readValue"
  /\ result' = readValue(buffer, cursor, serialType)
  /\ outcome' = IF result'.threw = "" THEN "returned" ELSE "threw"
  /\ UNCHANGED <<buffer, offset, cursor, serialType, u64,
                 file, tables, indexes, stored, rowIdList, searchValue,
                 command, stdout, processVars>>

NextValue == ReadValueStep

SpecValue == InitValue /\ [][NextValue]_vars

----------------------------------------------------------------------------
(* The record decoder on its own: a record of the stored fields, and a     *)
(* column list at least as long.                                           *)

FieldValues ==
  {Null, Text(Char(1)), Text(Char(2)), Text(Char(1) \o Char(2)), NumOfInt(7), NumOfInt(9)}

ColumnNames == <<"a", "b", "c", "d", "e">>

InitRow ==
  /\ pc = "init" /\ op = "none" /\ outcome = "pending"
  /\ NoSelect /\ NoPage /\ NoMain
  /\ \E k \in 0..MaxFields :
       /\ stored \in [1..k -> FieldValues]
       /\ \E m \in k..(MaxFields + 1) : m >= 1 /\ columnList = SubSeq(ColumnNames, 1, m)
  /\ buffer = EncodeRecord([i \in 1..Len(stored) |-> FieldOf(stored[i], 1)])
  /\ offset = 0 /\ cursor = 0 /\ serialType = 0 /\ u64 = {}
  /\ file = <<>> /\ tables = <<>> /\ indexes = <<>>
  /\ rowIdList = NoIndexData /\ searchValue = Null
  /\ result = Rows(<<>>)

ParseRowStep ==
  /\ pc = "init"
  /\ LET r == parseRow(buffer, columnList)
     IN  Finish("parseRow", [threw |-> r.threw,
                             rows  |-> IF r.threw = "" THEN <<r.row>> ELSE <<>>])
  /\ UNCHANGED <<buffer, offset, cursor, serialType, u64,
                 file, tables, indexes, stored, rowIdList, searchValue,
                 command, stdout, processVars>>

NextRow == ParseRowStep

SpecRow == InitRow /\ [][NextRow]_vars

----------------------------------------------------------------------------
(* The page reader on its own: a file of at most two pages, the first of   *)
(* any type byte, and a page number inside the file or past its end.       *)

TypeSamples == {0, 2, 5, 10, 13, 255}

PageSamples(types) ==
  {[pageType |-> t, cells |-> cells, rightMostPointer |-> p] :
     t \in types, cells \in {<<>>, <<IndexLeafCell(EncodeRecord(<<NullField>>))>>}, p \in {0, 7}}

InitPage ==
  /\ pc = "init" /\ op = "none" /\ outcome = "pending"
  /\ NoSelect /\ NoBytes /\ NoRow /\ NoMain
  /\ file \in {<<>>} \cup {<<a>> : a \in PageSamples(0..255)}
                \cup {<<a, b>> : a \in PageSamples(TypeSamples), b \in PageSamples(TypeSamples)}
  /\ pageNumber \in 1..(Len(file) + 1)
  /\ pageBuf = ZeroPage /\ fetched = <<>>
  /\ tables = <<>> /\ indexes = <<>> /\ stored = <<>>
  /\ rowIdList = NoIndexData /\ searchValue = Null
  /\ result = Rows(<<>>)

FetchPageStep ==
  /\ pc = "init"
  /\ pc' = "fetched" /\ op' = "fetchPage"
  /\ pageBuf' = fetchPage(file, pageNumber)
  /\ outcome' = "returned"
  /\ UNCHANGED <<buffer, offset, cursor, serialType, u64,
                 file, tables, indexes, stored, rowIdList, searchValue,
                 command, stdout, columnList, pageNumber, fetched, invocation,
                 fileState, closeCount, readAfterClose, exitCode, stderr, result>>

ParsePageHeaderStep ==
  /\ pc = "fetched"
  /\ pc' = "done" /\ op' = "parsePageHeader"
  /\ LET header == parsePageHeader(pageBuf)
     IN  /\ result' = IF header.threw # "" THEN Threw(header.threw) ELSE header
         /\ outcome' = IF header.threw # "" THEN "threw" ELSE "returned"
  /\ UNCHANGED <<buffer, offset, cursor, serialType, u64,
                 file, tables, indexes, stored, rowIdList, searchValue,
                 command, stdout, processVars>>

NextPage == FetchPageStep \/ ParsePageHeaderStep

SpecPage == InitPage /\ [][NextPage]_vars

----------------------------------------------------------------------------
(* Writing the schema: page 1 is a table leaf holding the schema rows, or  *)
(* (a large schema) a table-interior page over two leaves.                 *)

SchemaRow(type, rowName, tableName, rootPage, sql) ==
  [schemaType |-> Text(type), schemaName |-> Text(rowName), name |-> Text(tableName),
   rootPage |-> NumOfInt(rootPage), schemaBody |-> Text(sql)]

SchemaRecord(row, format) ==
  EncodeRecord([i \in 1..Len(SCHEMA_COLUMNS) |-> FieldOf(row[SCHEMA_COLUMNS[i]], format)])

\* a leaf of the schema rows from..to, the row at position i with row-id i
SchemaLeafPage(rows, from, to, format) ==
  [pageType |-> TABLE_LEAF,
   cells |-> [i \in 1..(to - from + 1) |->
                TableLeafCell(from + i - 1, SchemaRecord(rows[from + i - 1], format))],
   rightMostPointer |-> 0]

\* split = 0: one leaf; otherwise an interior page 1 over the leaves (pages
\* left and left + 1) of the rows 1..split and of the rest
SchemaPages(rows, split, left, format) ==
  IF split = 0 THEN <<SchemaLeafPage(rows, 1, Len(rows), format)>>
  ELSE <<[pageType |-> TABLE_INTERIOR,
          cells |-> <<TableInteriorCell(left, split)>>,
          rightMostPointer |-> left + 1],
         SchemaLeafPage(rows, 1, split, format),
         SchemaLeafPage(rows, split + 1, Len(rows), format)>>

----------------------------------------------------------------------------
(* The schema loader on its own.                                           *)

SchemaRowSamples ==
  {SchemaRow(TABLE_TYPE, Char(20), Char(20), 4, CREATE_TABLE_T_IDENTITY),
   SchemaRow(TABLE_TYPE, SQLITE_SEQUENCE, SQLITE_SEQUENCE, 5, CREATE_TABLE_SEQUENCE),
   SchemaRow(INDEX_TYPE, Char(9), Char(20), 6, CREATE_INDEX_C),
   SchemaRow(VIEW_TYPE, Char(22), Char(22), 0, CREATE_VIEW_V),
   SchemaRow(TRIGGER_TYPE, Char(7), Char(20), 0, CREATE_TRIGGER_G)}

InitSchema ==
  /\ pc = "init" /\ op = "none" /\ outcome = "pending"
  /\ NoSelect /\ NoBytes /\ NoProcess
  /\ \E n \in 0..MaxSchemaRows, format \in {1, 4} :
       /\ stored \in [1..n -> SchemaRowSamples]
       /\ \E split \in 0..n : split < n /\ file = SchemaPages(stored, split, 2, format)
  /\ tables = <<>> /\ indexes = <<>>
  /\ rowIdList = NoIndexData /\ searchValue = Null
  /\ result = Schemas(<<>>, <<>>)

ReadDatabaseSchemasStep ==
  /\ pc = "init"
  /\ pc' = "done" /\ op' = "readDatabaseSchemas"
  /\ result' = readDatabaseSchemas(file)
  /\ outcome' = IF result'.threw = "" THEN "returned" ELSE "threw"
  /\ UNCHANGED <<buffer, offset, cursor, serialType, u64,
                 file, tables, indexes, stored, rowIdList, searchValue,
                 command, stdout, processVars>>

NextSchema == ReadDatabaseSchemasStep

SpecSchema == InitSchema /\ [][NextSchema]_vars

----------------------------------------------------------------------------
(* main: one invocation of the program, a step for each await and each     *)
(* block.  outcome is "threw" once an error was raised.                    *)

MainRows == [t |-> SchemaRow(TABLE_TYPE, Char(20), Char(20), 2, CREATE_TABLE_T_IDENTITY),
             s |-> SchemaRow(TABLE_TYPE, SQLITE_SEQUENCE, SQLITE_SEQUENCE, 2,
                             CREATE_TABLE_SEQUENCE),
             v |-> SchemaRow(VIEW_TYPE, Char(22), Char(22), 0, CREATE_VIEW_V)]

\* the schemas: empty, the table t, t after sqlite_sequence, t with its
\* index on c, t with a view
MainSchemas(indexRoot) ==
  {<<>>, <<MainRows.t>>, <<MainRows.s, MainRows.t>>,
   <<MainRows.t, SchemaRow(INDEX_TYPE, Char(9), Char(20), indexRoot, CREATE_INDEX_C)>>,
   <<MainRows.t, MainRows.v>>}

\* 'SELECT c FROM t'
SELECT_C ==
  <<83, 69, 76, 69, 67, 84, 32, 99, 32, 70, 82, 79, 77, 32, 116>>

\* "SELECT c FROM t WHERE c = 'a'"
SELECT_C_WHERE ==
  <<83, 69, 76, 69, 67, 84, 32, 99, 32, 70, 82, 79, 77, 32, 116, 32, 87,
    72, 69, 82, 69, 32, 99, 32, 61, 32, 39, 97, 39>>

\* 'SELECT c FROM u'
SELECT_C_FROM_U ==
  <<83, 69, 76, 69, 67, 84, 32, 99, 32, 70, 82, 79, 77, 32, 117>>

\* 'SELECT c t'
SELECT_C_T ==
  <<83, 69, 76, 69, 67, 84, 32, 99, 32, 116>>

\* const { queryColumns, queryTableName, whereClause } = parseSelectCommand(command),
\* the columns by the names the rows have for them
queryOf(parsed) ==
  [queryColumns |-> IF parsed.queryTableName = UndefinedString THEN <<>>
                    ELSE [i \in 1..Len(parsed.queryColumns) |->
                            ColumnName(parsed.queryColumns[i])],
   queryTableName |-> parsed.queryTableName,
   whereClause |-> IF parsed.whereClause = <<>> THEN <<>>
                   ELSE <<<<ColumnName(parsed.whereClause[1][1]),
                            Text(parsed.whereClause[1][2])>>>>]

\* the SELECT commands: of t with and without a predicate, of a table the
\* schema does not hold, and one the pattern does not match
MainCommands ==
  {queryOf(parseSelectCommand(text)) :
     text \in {SELECT_C, SELECT_C_WHERE, SELECT_C_FROM_U, SELECT_C_T}}

\* process.argv has the two arguments or one less or more; the file can be
\* opened or not; it holds the schema page and, unless truncated, the pages
\* of the table and of the index
InitMain ==
  /\ pc = "init" /\ op = "none" /\ outcome = "pending"
  /\ NoBytes /\ NoRow /\ NoPage
  /\ \E n \in 0..MaxMainRows, truncated \in BOOLEAN :
       \E cs \in [1..n -> 1..3], shape \in TableShapes(n) :
         LET rows       == SelectRows(cs, "id")
             tablePages == TablePages(rows, shape, 2, 0, 1)
             indexRoot  == 2 + Len(tablePages)
         IN  /\ stored = rows
             /\ \E schema \in MainSchemas(indexRoot) :
                  file = SchemaPages(schema, 0, 2, 1)
                           \o (IF truncated THEN <<>>
                               ELSE tablePages \o IndexPages(EntriesOf(rows, 1), {},
                                                             indexRoot, 1))
  /\ invocation \in [argc : {3, 4, 5}, canOpen : BOOLEAN, pageSize : {512, 4096},
                     command : {".dbinfo", ".tables", "SELECT", ".foo"},
                     DEBUG_MODE : BOOLEAN, TRACE_MODE : BOOLEAN]
  /\ invocation.argc # 4 => invocation.canOpen /\ invocation.command = ".foo"
  /\ invocation.argc # 4 \/ ~invocation.canOpen =>
       ~invocation.DEBUG_MODE /\ ~invocation.TRACE_MODE
  /\ invocation.pageSize # 4096 => invocation.command = ".dbinfo"
  /\ IF invocation.command = "SELECT" THEN command \in MainCommands
                                      ELSE command = NoCommand
  /\ tables = <<>> /\ indexes = <<>>
  /\ rowIdList = NoIndexData /\ searchValue = Null
  /\ stdout = <<>>
  /\ fileState = "none" /\ closeCount = 0 /\ readAfterClose = FALSE
  /\ exitCode = -1 /\ stderr = <<>>
  /\ result = Rows(<<>>)

\* what no step of main changes
mainInputs ==
  <<buffer, offset, cursor, serialType, u64, file, stored, rowIdList, searchValue,
    command, columnList, pageNumber, pageBuf, fetched, invocation>>

\* an error raised inside the try block: control goes to the catch block
Raise(message) ==
  /\ pc' = "catch" /\ outcome' = "threw" /\ result' = Threw(message)

\* the check of process.argv, before the try block: the error it throws
\* rejects the promise of main, which nothing handles, and Node ends the
\* process with exit code 1
ArgvStep ==
  /\ pc = "init"
  /\ op' = "main"
  /\ IF invocation.argc # 4
       THEN /\ pc' = "exited" /\ outcome' = "threw" /\ exitCode' = 1
            /\ stderr' = <<"Invalid command parameters">>
       ELSE /\ pc' = "open"
            /\ UNCHANGED <<outcome, exitCode, stderr>>
  /\ UNCHANGED <<mainInputs, tables, indexes, stdout, fileState, closeCount,
                 readAfterClose, result>>

\* fileHandle = await open(filePath, 'r')
OpenStep ==
  /\ pc = "open"
  /\ IF invocation.canOpen
       THEN /\ pc' = "header" /\ fileState' = "open"
            /\ UNCHANGED <<outcome, result>>
       ELSE /\ Raise("ENOENT")
            /\ UNCHANGED fileState
  /\ UNCHANGED <<mainInputs, op, tables, indexes, stdout, closeCount, readAfterClose,
                 exitCode, stderr>>

\* await readDatabaseHeader(fileHandle): one read, which does not throw,
\* and logDebug('readDatabaseHeader', ...)
ReadDatabaseHeaderStep ==
  /\ pc = "header"
  /\ pc' = "schemas"
  /\ readAfterClose' = (readAfterClose \/ fileState # "open")
  /\ stdout' = Logged(stdout, logDebug(invocation))
  /\ UNCHANGED <<mainInputs, op, outcome, tables, indexes, fileState, closeCount,
                 exitCode, stderr, result>>

Loaded(schemas) ==
  IF schemas.threw # ""
    THEN Raise(schemas.threw) /\ UNCHANGED <<tables, indexes>>
    ELSE /\ pc' = "dispatch" /\ tables' = schemas.tables /\ indexes' = schemas.indexes
         /\ UNCHANGED <<outcome, result>>

\* await readDatabaseSchemas(fileHandle, pageSize)
ReadSchemasStep ==
  /\ pc = "schemas"
  /\ Loaded(readDatabaseSchemas(file))
  /\ readAfterClose' = (readAfterClose \/ fileState # "open")
  /\ stdout' = Logged(stdout, IF parsePageHeader(fetchPage(file, 1)).threw = ""
                                THEN logTrace(invocation) ELSE <<>>)
  /\ UNCHANGED <<mainInputs, op, fileState, closeCount, exitCode, stderr>>

Selected(r, logs) ==
  IF r.threw # ""
    THEN Raise(r.threw) /\ stdout' = Logged(stdout, logs)
    ELSE /\ pc' = "finally" /\ stdout' = Logged(stdout, logs) \o r.stdout
         /\ UNCHANGED <<outcome, result>>

\* the command: .dbinfo, .tables, a SELECT, or none of them
CommandStep ==
  /\ pc = "dispatch"
  /\ IF invocation.command = ".dbinfo"
       THEN /\ pc' = "finally"
            /\ stdout' = stdout \o handleDbInfo(tables, invocation.pageSize)
            /\ UNCHANGED <<outcome, result, readAfterClose>>
     ELSE IF invocation.command = ".tables"
       THEN /\ pc' = "finally" /\ stdout' = stdout \o handleTables(tables)
            /\ UNCHANGED <<outcome, result, readAfterClose>>
     ELSE IF invocation.command = "SELECT"
       THEN /\ Selected(handleSelect(command, file, tables, indexes),
                         selectLogs(invocation, command, file, tables, indexes))
            /\ readAfterClose' = (readAfterClose \/ fileState # "open")
     ELSE /\ pc' = "finally"
          /\ UNCHANGED <<outcome, result, stdout, readAfterClose>>
  /\ UNCHANGED <<mainInputs, op, tables, indexes, fileState, closeCount, exitCode, stderr>>

\* catch (err) { console.error('Fatal error:', err); }
CatchStep ==
  /\ pc = "catch"
  /\ pc' = "finally"
  /\ stderr' = Append(stderr, result.threw)
  /\ UNCHANGED <<mainInputs, op, outcome, tables, indexes, stdout, fileState, closeCount,
                 readAfterClose, exitCode, result>>

\* finally { if (fileHandle) { await fileHandle.close(); } }
FinallyStep ==
  /\ pc = "finally"
  /\ pc' = "exit"
  /\ fileState' = closeFileHandle(fileState)
  /\ closeCount' = IF fileState' # fileState THEN closeCount + 1 ELSE closeCount
  /\ UNCHANGED <<mainInputs, op, outcome, tables, indexes, stdout, readAfterClose,
                 exitCode, stderr, result>>

\* main has returned and nothing is pending: the process ends with
\* process.exitCode, which the program never sets
ExitStep ==
  /\ pc = "exit"
  /\ pc' = "exited"
  /\ exitCode' = 0
  /\ outcome' = IF outcome = "pending" THEN "returned" ELSE outcome
  /\ UNCHANGED <<mainInputs, op, tables, indexes, stdout, fileState, closeCount,
                 readAfterClose, stderr, result>>

NextMain ==
  \/ ArgvStep \/ OpenStep \/ ReadDatabaseHeaderStep \/ ReadSchemasStep
  \/ CommandStep \/ CatchStep \/ FinallyStep \/ ExitStep

MainPositions ==
  {"init", "open", "header", "schemas", "dispatch", "catch", "finally", "exit", "exited"}

\* main moves on: every step of main changes pc, and at every position but
\* the last one some step is enabled
Continue == \E position \in MainPositions \ {pc} : pc # "exited" /\ pc' = position

\* every await of main settles and the event loop runs its continuation, so
\* main keeps moving until the process has exited
SpecMain == InitMain /\ [][NextMain]_vars /\ WF_pc(Continue)

----------------------------------------------------------------------------
(* The parsers on their own: buffer holds the text, stored what the text   *)
(* was written from.                                                       *)

UpperCase(ch) == IF ch \in 97..122 THEN ch - 32 ELSE ch

\* a keyword in upper or in lower case
Keyword(word, upper) == IF upper THEN [i \in 1..Len(word) |-> UpperCase(word[i])] ELSE word

\* the sequences of 1..n elements of S
SeqsUpTo(S, n) == UNION {[1..k -> S] : k \in 1..n}

\* a, b1
NameSamples == {<<97>>, <<98, 49>>}

\* the projections: lists of names, or count(*)
ProjectionSamples ==
  SeqsUpTo(NameSamples, MaxColumns) \cup {<<<<99, 111, 117, 110, 116, 40, 42, 41>>>>}

\* ',' ', ' ' , '
SeparatorSamples == {<<44>>, <<44, 32>>, <<32, 44, 32>>}

\* x, 'x y', x-y, the empty string, X1, x=y
LiteralSamples ==
  {<<120>>, <<120, 32, 121>>, <<120, 45, 121>>, <<>>, <<88, 49>>, <<120, 61, 121>>}

\* where column = 'literal', the equals sign with or without spaces
WhereText(where, upper, spaced) ==
  IF where = <<>> THEN <<>>
  ELSE <<32>> \o Keyword(WHERE_WORD, upper) \o <<32>> \o where[1][1]
       \o (IF spaced THEN <<32, 61, 32>> ELSE <<61>>) \o <<39>> \o where[1][2] \o <<39>>

SelectText(projection, separator, tableName, where, upper, spaced) ==
  Keyword(SELECT_WORD, upper) \o <<32>> \o Join(projection, separator) \o <<32>>
  \o Keyword(FROM_WORD, upper) \o <<32>> \o tableName \o WhereText(where, upper, spaced)

\* the column definitions: a name, the gap after it, its type and constraints
TypeTexts ==
  {<<105, 110, 116, 101, 103, 101, 114>>,
   <<116, 101, 120, 116, 32, 110, 111, 116, 32, 110, 117, 108, 108>>,
   INTEGER_PRIMARY_KEY,
   Keyword(INTEGER_PRIMARY_KEY, TRUE)
     \o <<32, 97, 117, 116, 111, 105, 110, 99, 114, 101, 109, 101, 110, 116>>}

ItemSamples == [name : {<<105, 100>>, <<99>>, <<34, 100, 34>>}, type : TypeTexts]

\* ',' ', ' and a comma, a new line and a tab
ItemSeparators == {<<44>>, <<44, 32>>, <<44, 10, 9>>}

CreateTableText(items, gap, separator, upper, opening) ==
  Keyword(CREATE_WORD, upper) \o <<32>> \o Keyword(TABLE_WORD, upper) \o <<32, 116>>
  \o opening
  \o Join([i \in 1..Len(items) |-> items[i].name \o gap \o items[i].type], separator)
  \o <<41>>

HasIdentity(item) == includes(toLowerCase(item.type), INTEGER_PRIMARY_KEY)

\* what a CREATE TABLE statement of these items declares
Declared(items) ==
  [kind |-> "table",
   columns |-> [i \in 1..Len(items) |-> items[i].name],
   identityColumn |->
     IF \E i \in 1..Len(items) : HasIdentity(items[i])
       THEN items[SetMin({i \in 1..Len(items) : HasIdentity(items[i])})].name
       ELSE UndefinedString]

InitParser ==
  /\ pc = "init" /\ op = "none" /\ outcome = "pending"
  /\ NoSelect /\ NoProcess
  /\ offset = 0 /\ cursor = 0 /\ serialType = 0 /\ u64 = {}
  /\ file = <<>> /\ tables = <<>> /\ indexes = <<>>
  /\ rowIdList = NoIndexData /\ searchValue = Null
  /\ \/ \E projection \in ProjectionSamples, separator \in SeparatorSamples,
          tableName \in {<<116>>, <<116, 95, 49>>}, upper \in BOOLEAN, spaced \in BOOLEAN,
          where \in {<<>>} \cup {<<<<<<97>>, literal>>>> : literal \in LiteralSamples} :
          /\ where = <<>> => spaced
          /\ stored = [kind |-> "select", queryTableName |-> tableName,
                       queryColumns |-> projection, whereClause |-> where]
          /\ buffer = SelectText(projection, separator, tableName, where, upper, spaced)
     \/ \E items \in SeqsUpTo(ItemSamples, MaxColumns), gap \in {<<32>>, <<32, 32>>},
          separator \in ItemSeparators, upper \in BOOLEAN,
          opening \in {<<40>>, <<32, 40>>, <<10, 40, 10, 9>>} :
          /\ stored = Declared(items)
          /\ buffer = CreateTableText(items, gap, separator, upper, opening)
  /\ result = Rows(<<>>)

ParserFrame ==
  UNCHANGED <<buffer, offset, cursor, serialType, u64, file, tables, indexes, stored,
              rowIdList, searchValue, command, stdout, processVars>>

ParseSelectCommandStep ==
  /\ pc = "init" /\ stored.kind = "select"
  /\ pc' = "done" /\ op' = "parseSelectCommand"
  /\ result' = parseSelectCommand(buffer)
  /\ outcome' = "returned"
  /\ ParserFrame

ParseColumnsStep ==
  /\ pc = "init" /\ stored.kind = "table"
  /\ pc' = "done" /\ op' = "parseColumns"
  /\ result' = parseColumns(buffer)
  /\ outcome' = IF result'.threw = "" THEN "returned" ELSE "threw"
  /\ ParserFrame

NextParser == ParseSelectCommandStep \/ ParseColumnsStep

SpecParser == InitParser /\ [][NextParser]_vars

----------------------------------------------------------------------------
(* Claims about the varint codec (checked under SpecVarInt).               *)

\* the buffer holds the whole encoding of u64 at offset
HoldsEncoding ==
  LET enc == EncodeVarint(u64)
  IN  /\ offset + Len(enc) <= Len(buffer)
      /\ SubSeq(buffer, offset + 1, offset + Len(enc)) = enc

\* the buffer ends before a byte with a clear high bit has been read
TruncatedInput ==
  \/ offset >= Len(buffer)
  \/ /\ Len(buffer) - offset < 9
     /\ \A k \in offset..(Len(buffer) - 1) : buffer[k + 1] >= 128

\* C6: for every unsigned 64-bit value v, readVarInt applied to the SQLite
\* varint encoding of v returns value = v and bytesRead = the length of the
\* encoding, which is between 1 and 9.
C6_VarintRoundTrip ==
  (pc = "done" /\ op = "readVarInt" /\ HoldsEncoding) =>
    /\ outcome = "returned"
    /\ FitsInt32(u64) /\ result.value = NatOf(u64)
    /\ result.bytesRead = Len(EncodeVarint(u64))
    /\ result.bytesRead \in 1..9

\* C7: readVarInt fails with an error whenever the buffer ends before a byte
\* with a clear high bit has been read (or offset is at or past the end); it
\* never returns a value in that case.
C7_TruncatedVarintFails ==
  (pc = "done" /\ op = "readVarInt" /\ TruncatedInput) => outcome = "threw"

----------------------------------------------------------------------------
(* Claims about readValue (checked under SpecValue).                       *)

RECURSIVE AddOne(_)
AddOne(bytes) ==
  IF bytes = <<>> THEN <<>>
  ELSE LET n == Len(bytes)
       IN  IF bytes[n] = 255 THEN Append(AddOne(SubSeq(bytes, 1, n - 1)), 0)
           ELSE [bytes EXCEPT ![n] = bytes[n] + 1]

\* the big-endian two's-complement reading of bytes
SignedBE(bytes) ==
  IF bytes[1] >= 128
    THEN Num(TRUE, Strip(AddOne([i \in 1..Len(bytes) |-> 255 - bytes[i]])))
    ELSE Num(FALSE, Strip(bytes))

\* the same number, whether a Number or a BigInt carries it
SameNumber(a, b) ==
  /\ a.t \in {"number", "bigint"} /\ b.t \in {"number", "bigint"}
  /\ a.neg = b.neg /\ a.v = b.v

\* the body bytes of each serial type, by the file format
BodySize(st) ==
  IF st >= 12 THEN (IF st % 2 = 0 THEN (st - 12) \div 2 ELSE (st - 13) \div 2)
  ELSE <<0, 1, 2, 3, 4, 6, 8, 8, 0, 0>>[st + 1]

\* C8: for serial types 1..6 readValue returns the big-endian
\* two's-complement signed integer of width 8, 16, 24, 32, 48 and 64 bits: a
\* stored field whose most significant bit is set decodes to a negative
\* integer.
C8_SignedIntegers ==
  (/\ pc = "done" /\ op = "readValue" /\ serialType \in 1..6
   /\ HasBytes(buffer, cursor, BodySize(serialType))) =>
    /\ outcome = "returned"
    /\ SameNumber(result.value,
                  SignedBE(SubSeq(buffer, cursor + 1, cursor + BodySize(serialType))))

\* C9: readValue returns the integer 0 for serial type 8 and the integer 1
\* for serial type 9, consuming no body bytes; it does not return NULL.
C9_IntegerConstants ==
  (pc = "done" /\ op = "readValue" /\ serialType \in {8, 9}) =>
    /\ outcome = "returned"
    /\ result.value = Num(FALSE, MagOfNat(serialType - 8))
    /\ result.newCursor = cursor

\* C10: newCursor - cursor is defined for every serial type in 0..9 and every
\* N >= 12 and equals 0,1,2,3,4,6,8,8,0,0 for types 0..9, (N-12)/2 for even
\* N >= 12 and (N-13)/2 for odd N >= 13 (for the fixed-width types 1..7, when
\* the buffer holds those bytes at the cursor); for serial types 10 and 11
\* readValue raises an error and returns no value.
C10_SerialTypeSize ==
  (pc = "done" /\ op = "readValue") =>
    /\ serialType \in {10, 11} => outcome = "threw"
    /\ (/\ (serialType \in 0..9 \/ serialType >= 12)
        /\ serialType \in 1..7 => HasBytes(buffer, cursor, BodySize(serialType))) =>
         /\ outcome = "returned"
         /\ result.newCursor - cursor = BodySize(serialType)

\* a 48-bit integer (serial type 5) was read and six bytes were consumed
C10_Witness ==
  /\ pc = "done" /\ op = "readValue" /\ serialType = 5
  /\ outcome = "returned" /\ result.newCursor = cursor + 6

----------------------------------------------------------------------------
(* Claims about the table walkers (checked under SpecTable).               *)

\* the row a stored row is emitted as
EmittedRow(r, identityColumn) ==
  [c \in {"id", "c"} |->
     IF c = "c" THEN r.c
     ELSE IF identityColumn # "" THEN NumOfInt(r.rowId) ELSE r.id]

\* every stored row, in ascending row-id order
AllRows == [i \in 1..Len(stored) |-> EmittedRow(stored[i], tables[1].identityColumn)]

\* the positions of the stored rows whose row-id is in the row-id list
Wanted ==
  {i \in 1..Len(stored) :
     \E k \in 1..Len(rowIdList.entries) :
        rowIdList.entries[k]["rowId"] = NumOfInt(stored[i].rowId)}

RECURSIVE Pick(_, _, _)
\* the elements of seq at the positions of S, from position i on, in order
Pick(seq, S, i) ==
  IF i > Len(seq) THEN <<>>
  ELSE (IF i \in S THEN <<seq[i]>> ELSE <<>>) \o Pick(seq, S, i + 1)

SeqSet(seq) == {seq[i] : i \in 1..Len(seq)}

RootIsInterior == file[tables[1].rootPage].pageType = TABLE_INTERIOR

\* C2: for any valid table B-tree of any depth, tableScan from the root
\* returns every row stored in the tree's leaf cells exactly once, in
\* ascending row-id order.
C2_TableScanAllRowsInOrder ==
  (pc = "done" /\ op = "tableScan") =>
    /\ outcome = "returned"
    /\ result.rows = AllRows

\* a table of three levels was scanned and gave four rows or more
C2_Witness ==
  /\ pc = "done" /\ op = "tableScan" /\ outcome = "returned"
  /\ RootIsInterior
  /\ file[file[tables[1].rootPage].rightMostPointer].pageType = TABLE_INTERIOR
  /\ Len(result.rows) >= 4

\* C3: for any valid table B-tree and any row-id list R, indexScan(root, R)
\* returns exactly the rows of the table whose rowId is in R, each exactly
\* once and no other row; when R lists every row-id of the table, the rows
\* indexScan returns are the rows tableScan returns, with no duplicates.
C3_IndexScanExactlyR ==
  (pc = "done" /\ op = "indexScan") =>
    /\ outcome = "returned"
    /\ Len(result.rows) = Cardinality(Wanted)
    /\ SeqSet(result.rows) = {AllRows[i] : i \in Wanted}
    /\ Wanted = 1..Len(stored) =>
         SeqSet(result.rows) =
           SeqSet(tableScan(file, tables[1].rootPage, tables[1].columns,
                            tables[1].identityColumn).rows)

\* an interior root was pruned: two of three or more rows were asked for
\* and returned
C3_Witness ==
  /\ pc = "done" /\ op = "indexScan" /\ outcome = "returned"
  /\ RootIsInterior
  /\ Len(stored) >= 3 /\ Cardinality(Wanted) = 2 /\ Len(result.rows) = 2

\* C4: indexScan produces its rows in ascending row-id order for every
\* ordering of the row-id list R: permuting the entries of R never changes
\* the order of the rows returned.
C4_IndexScanAscending ==
  (pc = "done" /\ op = "indexScan") =>
    /\ outcome = "returned"
    /\ result.rows = Pick(AllRows, Wanted, 1)

\* C12: for a table with an identity column, every row emitted by
\* tableScan or indexScan has that column's value equal to the row-id of
\* the table-leaf cell it was read from, whatever serial type is stored for
\* the column in the record; for a table without an identity column no
\* column is overridden.
C12_IdentityColumnIsRowId ==
  (pc = "done" /\ op \in {"tableScan", "indexScan"}) =>
    /\ outcome = "returned"
    /\ \A k \in 1..Len(result.rows) :
         \E i \in 1..Len(stored) :
            /\ result.rows[k]["c"] = stored[i].c
            /\ result.rows[k]["id"] =
                 IF tables[1].identityColumn = "id" THEN NumOfInt(stored[i].rowId)
                 ELSE stored[i].id

\* a scan of a table with an identity column emitted a row whose stored id
\* is an integer other than its row-id, and a row whose stored id is text
C12_Witness ==
  /\ pc = "done" /\ op \in {"tableScan", "indexScan"} /\ outcome = "returned"
  /\ tables[1].identityColumn = "id"
  /\ \E i, j \in 1..Len(stored) :
        /\ stored[i].id.t = "number" /\ stored[i].id # NumOfInt(stored[i].rowId)
        /\ stored[j].id.t = "string"
        /\ \E k, l \in 1..Len(result.rows) :
              /\ result.rows[k]["id"] = NumOfInt(stored[i].rowId)
              /\ result.rows[l]["id"] = NumOfInt(stored[j].rowId)


----------------------------------------------------------------------------
(* Claims about the index walker (checked under SpecIndex).                *)

\* the positions of the stored entries whose key is the search value
Matching == {i \in 1..Len(stored) : stored[i].key = searchValue}

\* C5: for any valid index B-tree (keys sorted ascending, duplicates
\* allowed) and any search value V, readIndexData(root, V) returns every
\* index entry of the tree whose key equals V, wherever in the tree that
\* entry is stored (leaf cell or interior cell) and however many leaves the
\* run of duplicates spans, and returns no entry whose key differs from V.
C5_ReadIndexDataAllMatches ==
  (pc = "done" /\ op = "readIndexData") =>
    /\ outcome = "returned"
    /\ Len(result.rows) = Cardinality(Matching)
    /\ \A k \in 1..Len(result.rows) : result.rows[k]["key"] = searchValue

----------------------------------------------------------------------------
(* Claims about the SELECT executor (checked under SpecSelect).            *)

\* the select ran against an existing table with a WHERE clause an index
\* of that table covers
IndexPathTaken ==
  /\ pc = "done" /\ op = "select"
  /\ \E i \in 1..Len(tables) : tables[i].name = command.queryTableName
  /\ Len(command.whereClause) > 0
  /\ searchIndex(command.queryTableName, command.whereClause, indexes) # NoIndex

\* the multiset of the elements of a sequence
BagOfSeq(seq) == [x \in SeqSet(seq) |-> Cardinality({i \in 1..Len(seq) : seq[i] = x})]

FullScanRows ==
  filterRows(tableScan(file, tables[1].rootPage, tables[1].columns,
                       tables[1].identityColumn).rows,
             command.whereClause)

\* C1: when a usable index exists, the index path (readIndexData followed
\* by indexScan) yields the same multiset of rows as a full tableScan
\* followed by the equality filter on the WHERE column.
C1_IndexPathEqualsFullScan ==
  IndexPathTaken =>
    /\ outcome = "returned"
    /\ BagOfSeq(result.rows) = BagOfSeq(FullScanRows)

----------------------------------------------------------------------------
(* Claims about parseRow (checked under SpecRow).                          *)

\* the record holds fewer fields than the column list names
ShortRecord == Len(stored) < Len(columnList)

\* C11: when a record's header holds fewer serial types than the column
\* list passed to parseRow (a short record), parseRow decodes the stored
\* columns correctly and yields NULL for every remaining trailing column.
C11_ShortRecordTrailingNulls ==
  (pc = "done" /\ op = "parseRow" /\ ShortRecord) =>
    /\ outcome = "returned"
    /\ \A i \in 1..Len(columnList) :
         result.rows[1][columnList[i]] = IF i <= Len(stored) THEN stored[i] ELSE Null

----------------------------------------------------------------------------
(* Claims about the page reader (checked under SpecPage).                  *)

\* C13: parsePageHeader raises an error for every page-type byte outside
\* {0x02, 0x05, 0x0a, 0x0d} and returns no header; for a valid type it
\* returns header size 8 for leaf types and 12 for interior types, with
\* rightMostPointer defined only for interior types.
C13_PageHeaderByType ==
  (pc = "done" /\ op = "parsePageHeader") =>
    IF pageBuf.pageType \in {2, 5}
      THEN /\ outcome = "returned"
           /\ result.pageHeaderSize = 12
           /\ result.rightMostPointer = pageBuf.rightMostPointer
    ELSE IF pageBuf.pageType \in {10, 13}
      THEN /\ outcome = "returned"
           /\ result.pageHeaderSize = 8
           /\ result.rightMostPointer = Undefined
    ELSE outcome = "threw" /\ result = Threw("invalid page type")

\* the header of a page whose type byte is 0x85 was rejected
C13_Witness ==
  /\ pc = "done" /\ op = "parsePageHeader"
  /\ pageBuf.pageType = 133 /\ outcome = "threw"

\* C14: fetchPage fails with an error whenever the file supplies fewer
\* than pageSize bytes at the page's offset; it never returns a buffer
\* that is zero-filled padding.
C14_ShortReadFails ==
  (pc = "fetched" /\ op = "fetchPage" /\ pageNumber > Len(file)) =>
    outcome = "threw"

----------------------------------------------------------------------------
(* Claims about the schema loader (checked under SpecSchema).              *)

\* the stored schema rows of a type, in cell order
RECURSIVE StoredOfType(_, _)
StoredOfType(rows, type) ==
  IF rows = <<>> THEN <<>>
  ELSE (IF rows[1].schemaType = Text(type) THEN <<rows[1]>> ELSE <<>>)
       \o StoredOfType(Tail(rows), type)

OnlyTablesAndIndexes ==
  \A i \in 1..Len(stored) : stored[i].schemaType \in {Text(TABLE_TYPE), Text(INDEX_TYPE)}

SchemaOnOneLeaf == file[1].pageType = TABLE_LEAF

\* C15: readDatabaseSchemas puts every schema row of type "table" in
\* tables and every row of type "index" in indexes, in cell order, and
\* raises an error as soon as it meets a row of any other type, returning
\* no schema at all in that case.
C15_SchemaRowsByType ==
  (pc = "done" /\ op = "readDatabaseSchemas" /\ SchemaOnOneLeaf) =>
    IF OnlyTablesAndIndexes
      THEN /\ outcome = "returned"
           /\ result.tables = StoredOfType(stored, TABLE_TYPE)
           /\ result.indexes = StoredOfType(stored, INDEX_TYPE)
      ELSE outcome = "threw" /\ result = NoSchemas("Invalid schema type")

\* a schema of a table, an index and a table was returned
C15_Witness ==
  /\ pc = "done" /\ op = "readDatabaseSchemas" /\ SchemaOnOneLeaf
  /\ outcome = "returned"
  /\ Len(result.tables) = 2 /\ Len(result.indexes) = 1
  /\ stored[2].schemaType = Text(INDEX_TYPE)

\* C16: when page 1 is a table-interior page, the schema loader still
\* returns every table and index row of the schema by walking the child
\* pages; the schema rows returned do not depend on whether the schema
\* fits on one leaf page.
C16_SchemaOnInteriorRoot ==
  (pc = "done" /\ op = "readDatabaseSchemas" /\ ~SchemaOnOneLeaf /\ OnlyTablesAndIndexes) =>
    /\ outcome = "returned"
    /\ result.tables = StoredOfType(stored, TABLE_TYPE)
    /\ result.indexes = StoredOfType(stored, INDEX_TYPE)

\* the queried table is in the schema
TableFound == \E i \in 1..Len(tables) : tables[i].name = command.queryTableName

\* some index on the queried table has the predicate column as its first
\* column
IndexOnPredicateColumn ==
  \E i \in 1..Len(indexes) :
     /\ indexes[i].tableName = command.queryTableName
     /\ indexes[i].columns[1] = command.whereClause[1][1]

\* C17: the SELECT handler takes the index-driven path only when some index
\* has the queried table as target and the predicate column as its FIRST
\* indexed column; an index in which the predicate column appears only at a
\* later position is never used, and the query then runs as a full table
\* scan with the in-memory filter.
C17_IndexOnFirstColumnOnly ==
  (pc = "done" /\ op = "select" /\ TableFound /\ Len(command.whereClause) > 0
     /\ ~IndexOnPredicateColumn) =>
    /\ ~rowIdList.defined
    /\ outcome = "returned"
    /\ result.rows = FullScanRows

\* the SELECT names a column the table does not have
UnknownColumn ==
  LET known == {tables[1].columns[i] : i \in 1..Len(tables[1].columns)} \cup {"count(*)"}
  IN  \/ \E k \in 1..Len(command.queryColumns) : command.queryColumns[k] \notin known
      \/ Len(command.whereClause) > 0 /\ command.whereClause[1][1] \notin known

\* C18: a SELECT whose projection or predicate names a column that is not
\* a column of the queried table fails with an error and emits no rows; it
\* never prints rows with an empty or placeholder value for that column.
C18_UnknownColumnFails ==
  (pc = "done" /\ op = "select" /\ TableFound /\ UnknownColumn) =>
    outcome = "threw" /\ stdout = <<>>

\* C19: every invocation in which an error is raised ends with a non-zero
\* exit code, and every invocation without an error ends with exit code 0.
C19_ExitCodeTellsErrors ==
  pc = "exited" => (exitCode # 0 <=> outcome = "threw")

\* C20: once the database file has been opened, on every path through main
\* the file handle is eventually closed, it is closed exactly once, and no
\* read is issued after the close.
C20_HandleClosedOnce ==
  /\ [](closeCount <= 1 /\ ~readAfterClose)
  /\ [](pc = "exited" /\ fileState # "none" => fileState = "closed" /\ closeCount = 1)
  /\ ((fileState = "open") ~> (fileState = "closed"))

\* an invocation whose SELECT raised an error has ended with the handle
\* closed
C20_Witness ==
  /\ pc = "exited" /\ op = "main" /\ outcome = "threw"
  /\ tables # <<>> /\ invocation.command = "SELECT"
  /\ fileState = "closed" /\ closeCount = 1

\* what the command writes when neither logging flag is set
QuietCommand(schemas) ==
  IF schemas.threw # "" THEN <<>>
  ELSE IF invocation.command = ".dbinfo"
    THEN handleDbInfo(schemas.tables, invocation.pageSize)
  ELSE IF invocation.command = ".tables" THEN handleTables(schemas.tables)
  ELSE IF invocation.command = "SELECT"
    THEN handleSelect(command, file, schemas.tables, schemas.indexes).stdout
  ELSE <<>>

\* the lines the invocation writes to stdout when neither flag is set
QuietStdout ==
  IF invocation.argc # 4 \/ ~invocation.canOpen THEN <<>>
  ELSE QuietCommand(readDatabaseSchemas(file))

\* C21: for the same database file and command, the lines written to stdout
\* are the same whether the debug-logging flag and the trace-logging flag are
\* set or unset.
C21_FlagsLeaveStdoutAlone ==
  pc = "exited" => stdout = QuietStdout

\* C22: a SELECT with a column projection whose predicate matches no row
\* writes nothing to stdout (zero lines, not an empty line) and completes
\* without error, on the index-driven path and on the full-scan path.
C22_NoMatchPrintsNothing ==
  (pc = "done" /\ op = "select" /\ TableFound /\ ~UnknownColumn
     /\ command.queryColumns[1] # "count(*)"
     /\ Len(command.whereClause) > 0 /\ FullScanRows = <<>>) =>
    outcome = "returned" /\ stdout = <<>>

----------------------------------------------------------------------------
(* Claims about the parsers (checked under SpecParser).                    *)

\* C24: for a CREATE TABLE statement, parseColumns returns the column names
\* in declaration order, each the first token of its comma-separated item,
\* and as identityColumn the name of the column whose item contains INTEGER
\* PRIMARY KEY in any letter case, or undefined when no column has it.
C24_ParseColumns ==
  (pc = "done" /\ op = "parseColumns") =>
    /\ outcome = "returned"
    /\ result.columns = stored.columns
    /\ result.identityColumn = stored.identityColumn

\* a statement of two columns, the second one the identity column in upper
\* case, has been parsed
C24_Witness ==
  /\ pc = "done" /\ op = "parseColumns"
  /\ Len(stored.columns) = 2 /\ stored.identityColumn = stored.columns[2]
  /\ includes(buffer, Keyword(INTEGER_PRIMARY_KEY, TRUE))
  /\ result.identityColumn = stored.columns[2]

\* C25: parseSelectCommand returns the table name and the ordered, trimmed
\* list of projected columns; for a command with a single WHERE clause
\* column = 'literal' it returns whereClause = [[column, literal]] with the
\* quotes removed, and without a WHERE clause the empty list.
C25_ParseSelectCommand ==
  (pc = "done" /\ op = "parseSelectCommand") =>
    /\ result.queryTableName = stored.queryTableName
    /\ result.queryColumns = stored.queryColumns
    /\ result.whereClause = stored.whereClause

----------------------------------------------------------------------------
(* Claims about the commands of main (checked under SpecMain).             *)

\* the command is none of .dbinfo, .tables and a SELECT the pattern matches
Unsupported ==
  \/ invocation.command = ".foo"
  \/ invocation.command = "SELECT" /\ command.queryTableName = UndefinedString

\* C23: every command outside the supported set (.dbinfo, .tables, a SELECT
\* matching the restricted grammar) results in an error outcome; it never
\* completes silently as a success.
C23_UnsupportedCommandFails ==
  (pc = "exited" /\ invocation.argc = 4 /\ Unsupported) => outcome = "threw"

----------------------------------------------------------------------------
(* Claims about the pages the table walkers fetch (checked under           *)
(* SpecTable).                                                             *)

\* the child pointers of the root page, an interior page
RootPointers == parseTableInteriorPage(fetchPage(file, tables[1].rootPage))

\* the row-ids of R
RowIds == {rowIdList.entries[i]["rowId"] : i \in 1..Len(rowIdList.entries)}

\* cell i of the root is, for some r of R, the first cell with rowId >= r or
\* the last cell with rowId <= r
MayHold(i) ==
  LET rowIdOf(k) == NumOfInt(RootPointers[k].rowId)
  IN  \E r \in RowIds :
        \/ /\ GreaterOrEqual(rowIdOf(i), r)
           /\ \A k \in 1..(i - 1) : ~GreaterOrEqual(rowIdOf(k), r)
        \/ /\ LessOrEqual(rowIdOf(i), r)
           /\ \A k \in (i + 1)..Len(RootPointers) : ~LessOrEqual(rowIdOf(k), r)

\* some r of R exceeds the largest cell rowId of the root
BeyondLastCell ==
  \E r \in RowIds :
    \A k \in 1..Len(RootPointers) : GreaterThan(r, NumOfInt(RootPointers[k].rowId))

\* how many times page p is in the sequence of pages
Times(pages, p) == Cardinality({i \in 1..Len(pages) : pages[i] = p})

\* the root is an interior page over leaves
RootOverLeaves ==
  /\ RootIsInterior
  /\ \A i \in 1..Len(RootPointers) : file[RootPointers[i].page].pageType = TABLE_LEAF
  /\ file[file[tables[1].rootPage].rightMostPointer].pageType = TABLE_LEAF

\* C27: indexScan fetches only table pages that may contain a row-id of R:
\* on a table-interior page it descends into a cell's child only when that
\* cell is, for some r in R, the first cell with rowId >= r or the last cell
\* with rowId <= r (each such child once), and into the right-most child
\* only when some r in R exceeds the largest cell rowId of that page.
C27_IndexScanFetchesOnlyCandidates ==
  (pc = "done" /\ op = "indexScan" /\ outcome = "returned" /\ RootOverLeaves) =>
    /\ \A i \in 1..Len(RootPointers) :
         Times(fetched, RootPointers[i].page) = (IF MayHold(i) THEN 1 ELSE 0)
    /\ Times(fetched, file[tables[1].rootPage].rightMostPointer)
         = (IF BeyondLastCell THEN 1 ELSE 0)

\* the same of the cells alone, whatever becomes of the right-most child
IndexScanCellsOnlyCandidates ==
  (pc = "done" /\ op = "indexScan" /\ outcome = "returned" /\ RootOverLeaves) =>
    \A i \in 1..Len(RootPointers) :
      Times(fetched, RootPointers[i].page) = (IF MayHold(i) THEN 1 ELSE 0)

\* the pages of the table B-tree: every page of the file but the schema page
TreePages == 2..Len(file)

\* the children of a page of the tree
ChildrenOf(p) ==
  IF file[p].pageType = TABLE_INTERIOR
    THEN {parseTableInteriorPage(file[p])[i].page : i \in 1..Len(file[p].cells)}
           \cup {file[p].rightMostPointer}
    ELSE {}

\* C29: during one tableScan of a table B-tree whose page graph is a finite
\* tree, every page of the tree is fetched exactly once, no page outside the
\* tree is fetched, each child is fetched only after its parent, and the
\* scan ends after the last leaf.
C29_TableScanFetchesEachPageOnce ==
  (pc = "done" /\ op = "tableScan") =>
    /\ outcome = "returned"
    /\ \A p \in TreePages : Times(fetched, p) = 1
    /\ \A i \in 1..Len(fetched) : fetched[i] \in TreePages
    /\ fetched[1] = tables[1].rootPage
    /\ \A i \in 2..Len(fetched) :
         \E j \in 1..(i - 1) : fetched[i] \in ChildrenOf(fetched[j])
    /\ file[fetched[Len(fetched)]].pageType = TABLE_LEAF

\* a tree of three levels was scanned: five pages or more were fetched
C29_Witness ==
  /\ pc = "done" /\ op = "tableScan" /\ outcome = "returned"
  /\ RootIsInterior
  /\ file[file[tables[1].rootPage].rightMostPointer].pageType = TABLE_INTERIOR
  /\ Len(fetched) >= 5 /\ Len(fetched) = Len(file) - 1

----------------------------------------------------------------------------
(* Claims about the walk of readIndexData (checked under SpecIndex).       *)

\* the keys of the root page of the index, when it is an interior page
RootKeys ==
  LET buf == fetchPage(file, indexes[1].rootPage)
  IN  IF parsePageHeader(buf).threw = "" /\ parsePageHeader(buf).pageType = INDEX_INTERIOR
        THEN parseIndexInteriorPage(buf).keys
        ELSE <<>>

\* the children of the cells with a key K >= V, up to the first whose call
\* returns zero entries after an earlier call has returned matches
RECURSIVE StopAfterMatches(_, _)
StopAfterMatches(keys, found) ==
  IF keys = <<>> THEN <<>>
  ELSE IF GreaterOrEqual(keys[1].value, searchValue) THEN
    LET subresult == readIndexData(file, keys[1].page, searchValue)
    IN  IF Len(subresult.rows) = 0 /\ found THEN <<keys[1].page>>
        ELSE <<keys[1].page>>
               \o StopAfterMatches(Tail(keys), found \/ Len(subresult.rows) > 0)
  ELSE StopAfterMatches(Tail(keys), found)

\* C26: on an index-interior page readIndexData recurses into a cell's child
\* iff the cell key K >= V, and abandons the remaining cells only when a
\* call returns zero entries after an earlier call on that page has returned
\* matches; a zero-entry result before any match does not stop the loop.
C26_StopsOnlyAfterMatches ==
  (pc = "done" /\ op = "readIndexData" /\ outcome = "returned" /\ RootKeys # <<>>) =>
    descended(file, RootKeys, searchValue) = StopAfterMatches(RootKeys, FALSE)

----------------------------------------------------------------------------
(* Claims about the two paths of the SELECT handler (checked under         *)
(* SpecSelect).                                                            *)

\* the value a row holds equals the literal of the predicate: a text value
\* has the characters of the literal, a number the literal as its decimal
\* form; NULL equals no literal
EqualsLiteral(value, literal) ==
  \/ value.t = "string" /\ value.v = literal.v
  \/ value.t = "number" /\ JoinString(value) = literal.v

\* the stored rows the predicate selects, in row-id order, as the walker
\* emits them
RowsWhere(whereClause) ==
  IF Len(whereClause) = 0 THEN AllRows
  ELSE LET Selected_(row) == EqualsLiteral(row[whereClause[1][1]], whereClause[1][2])
       IN  SelectSeq(AllRows, Selected_)

\* the select ran as a full scan of an existing table, over its own columns
FullScanTaken ==
  /\ pc = "done" /\ op = "select" /\ TableFound /\ ~UnknownColumn
  /\ ~rowIdList.defined

\* C28: when a predicate column = literal is present and no index is used,
\* the SELECT handler emits exactly the rows of the full tableScan whose
\* value in the predicate column equals the literal (text values compared
\* textually), in scan order, and omits every other row, including rows
\* whose value is NULL; with no predicate it emits every row of the scan.
C28_FullScanSelectsEqualRows ==
  FullScanTaken =>
    outcome = "returned" /\ result.rows = RowsWhere(command.whereClause)

\* the same for a predicate on the text column c, or no predicate
FullScanSelectsEqualText ==
  (FullScanTaken /\ (Len(command.whereClause) > 0 => command.whereClause[1][1] = "c")) =>
    outcome = "returned" /\ result.rows = RowsWhere(command.whereClause)

\* C30: on the index-driven path the SELECT handler never re-applies the
\* predicate to the table rows: the rows it emits are exactly the table rows
\* whose rowId appears in the entries returned by readIndexData, whatever
\* value those rows hold in the predicate column; this also holds when
\* readIndexData returns an empty list, in which case indexScan still runs
\* and zero rows are emitted.
C30_IndexPathEmitsRowsOfEntries ==
  IndexPathTaken =>
    /\ outcome = "returned"
    /\ rowIdList.defined
    /\ Len(result.rows) = Cardinality(Wanted)
    /\ SeqSet(result.rows) = {AllRows[i] : i \in Wanted}
    /\ rowIdList.entries = <<>> => result.rows = <<>>

\* readIndexData returned an empty list for a predicate that rows of the
\* table satisfy, and no row was emitted
C30_Witness ==
  /\ IndexPathTaken /\ outcome = "returned"
  /\ rowIdList.defined /\ rowIdList.entries = <<>>
  /\ FullScanRows # <<>> /\ result.rows = <<>>

====
